---- MODULE Spec2Model ----
(***************************************************************************)
(* btelem: lock-free telemetry ring, producer path (BTELEM_LOG), consumer  *)
(* cursors, callback drain (btelem_drain) and packed-batch drain           *)
(* (btelem_drain_packed).                                                  *)
(*                                                                         *)
(* Every shared-memory access of the C code is one step: the fetch_add on  *)
(* head, each store to a slot field, each load of seq, and each field read *)
(* of the consumer's memcpy.  Thread-local computation between two shared  *)
(* accesses is folded into the step of the access that precedes it.        *)
(* Memory is sequentially consistent in this model.                        *)
(***************************************************************************)
EXTENDS Integers, Sequences, FiniteSets, TLC

(* ------------------------------------------------------------------ *)
(* Bounds of the model                                                 *)
(* ------------------------------------------------------------------ *)
MaxCapacity  == 2      \* largest ring capacity passed to btelem_init
NumProducers == 2      \* producer threads
MaxLogs      == 3      \* total BTELEM_LOG calls in a run
MaxTag       == 1      \* schema ids 0..MaxTag are logged
MaxOpen      == 2      \* consumers opened in a run
MaxRegs      == 3      \* btelem_register calls in a run
MaxInits     == 2      \* btelem_init calls on a context in a run
MaxConns     == 2      \* TCP connections the server accepts in a run
MaxTimeouts  == 2      \* timed-out write() calls inside one send_all call
MaxWideCalls == 2      \* btelem_drain_packed calls on the ring of 2^16 entries

(* ------------------------------------------------------------------ *)
(* Program constants                                                   *)
(* ------------------------------------------------------------------ *)
BTELEM_MAX_CLIENTS        == 8
BTELEM_MAX_SCHEMA_ENTRIES == 64
BTELEM_MAX_PAYLOAD        == 232
BTELEM_NAME_MAX           == 64
BTELEM_DESC_MAX           == 128
BTELEM_MAX_FIELDS         == 16
BTELEM_ENUM_LABEL_MAX     == 32
BTELEM_ENUM_MAX_VALUES    == 64
BTELEM_BITFIELD_MAX_BITS  == 16
BTELEM_BIT_NAME_MAX       == 32

\* enum btelem_type
BTELEM_U32      == 2
BTELEM_ENUM     == 12
BTELEM_BITFIELD == 13

\* sizeof of the packed wire structs
FIELD_WIRE_SIZE    == 70
SCHEMA_WIRE_SIZE   == 1318
SCHEMA_HEADER_SIZE == 3
ENUM_WIRE_SIZE     == 2053
BITFIELD_WIRE_SIZE == 549
PACKET_HEADER_SIZE        == 16
BTELEM_SERVE_MAX_CLIENTS  == 16
BTELEM_SERVE_PKT_BUF      == 65536
ENTRY_HEADER_SIZE         == 16
UINT32_MAX                == 65535 * 65536 + 65535
UINT16_MOD                == 65536

\* variant: any non-zero entry_count passes
is_power_of_2_NonZero(v) == v # 0

is_power_of_2(v) == v # 0 /\ \E k \in 0..v : 2^k = v

Capacities == {c \in 1..MaxCapacity : is_power_of_2(c)}
Producers  == 1..NumProducers
ClientIds  == 0..(BTELEM_MAX_CLIENTS - 1)
Tags       == 0..MaxTag

\* sizeof(data) of the struct logged under schema id `tag`
SizeOfData(tag) == tag + 1
MaxDataLen == SizeOfData(MaxTag)

\* the bytes of the struct a producer passes to its n-th BTELEM_LOG call:
\* {thread id, counter} folded into each byte, so a call logs bytes that
\* the calls before and after it do not log
DataOf(p, n, tag) == [k \in 1..SizeOfData(tag) |-> (16 * p + n) % 256]

RECURSIVE BitAnd(_, _)
BitAnd(a, b) ==
    IF a = 0 \/ b = 0 THEN 0
    ELSE (a % 2) * (b % 2) + 2 * BitAnd(a \div 2, b \div 2)

Min(a, b) == IF a < b THEN a ELSE b

VARIABLES
    capacity,   \* ring->capacity
    head,       \* ring->head
    entries,    \* ring->entries[]: slot index -> btelem_entry
    clients,    \* ctx->clients[]: client id -> btelem_client
    prod,       \* per producer thread: position inside BTELEM_LOG and its locals
    drn,        \* per client: position of the thread draining it and its locals
    clock,      \* value the next BTELEM_TIMESTAMP() returns
    scn,        \* what this run may do (fixed at initialisation)
    logged,     \* history: logged[c + 1] = arguments of the log call that claimed c
    hist,       \* history: per client, what its drain calls did so far
    last,       \* history: the last client-management or rejected call
    schema,     \* ctx->schema[]: index -> registered descriptor or NULL
    schema_count, \* ctx->schema_count
    endianness, \* ctx->endianness
    nullread,   \* what this build does when a string is read through NULL
    wire,       \* history: results of the register and schema calls
    srv,        \* struct btelem_server: running, listen_fd, clients[]
    thr,        \* the server's threads and the thread that calls
                \* btelem_serve and btelem_server_stop: position and locals
    net         \* the sockets: their state and the bytes written to them

\* the context's registry and what the schema calls produced
outside == <<schema, schema_count, endianness, nullread, wire>>

\* the TCP server
server_side == <<srv, thr, net>>

vars == <<capacity, head, entries, clients, prod, drn, clock, scn,
          logged, hist, last, outside, server_side>>

mask == capacity - 1

ZeroPayload == [k \in 1..MaxDataLen |-> 0]

\* struct btelem_entry after memset(r, 0, ...)
ZeroEntry == [seq |-> 0, timestamp |-> 0, id |-> 0, payload_size |-> 0,
              payload |-> ZeroPayload]

\* struct btelem_client after memset(ctx, 0, ...)
ZeroClient == [active |-> FALSE, cursor |-> 0, filter_active |-> FALSE,
               filter |-> {}, dropped |-> 0, dropped_reported |-> 0]

IdleProducer == [pc |-> "idle", slot |-> 0, tag |-> 0, data |-> <<>>, n |-> 0,
                 sb |-> <<>>]    \* stores issued and not yet visible to
                                 \* other threads (used where the memory
                                 \* orderings are modelled)

ZeroLocal == [timestamp |-> 0, id |-> 0, payload_size |-> 0,
              payload |-> ZeroPayload]

IdleDrain == [pc |-> "idle", kind |-> "none", head |-> 0, seq |-> 0,
              local |-> ZeroLocal, emitted |-> 0,
              buf_size |-> 0, max_entries |-> 0, payload_capacity |-> 0,
              entry_count |-> 0, payload_offset |-> 0,
              table |-> <<>>, payload_buf |-> <<>>,
              quiet |-> TRUE,
              cursor0 |-> 0,     \* history: c->cursor when the call began
              iters |-> 0,       \* history: loop iterations begun
              hit |-> FALSE]     \* history: since the first load of seq in
                                 \* this iteration, a later claim of the
                                 \* slot stored seq = 0

NoCall == [kind |-> "none", ret |-> 0, quiet |-> FALSE, head |-> 0,
           buf_size |-> 0, packet |-> <<>>, drop_delta |-> 0,
           reported_before |-> 0]

\* history of a client slot nobody has opened
NoHist == [opened_at |-> 0, emitted |-> <<>>, dropped_claims |-> {},
           lastcall |-> NoCall, cb_stopped |-> FALSE, kinds |-> {},
           calls |-> 0,          \* finished calls: 0, 1, or 2 for more
           all_quiet |-> TRUE,
           packets |-> 0, pkt_dropped_sum |-> 0,
           held |-> {},          \* claims pending when a drain_packed call
                                 \* was given a buffer of one packet header
           overtaken |-> {},     \* claims whose copy a later claim of the
                                 \* slot overtook, as the second load found
           stopped_at |-> {}]    \* claims on which the callback returned
                                 \* non-zero

\* the last call of btelem_client_open, btelem_client_close,
\* btelem_client_available, or of a drain that failed its entry checks:
\* tick flips with every such call, ret is the return value, out is what
\* the call left in its output parameter
NoLast == [tick |-> 0, op |-> "none", id |-> 0, ret |-> 0, out |-> 0]

Called(op, id, ret, out) ==
    [tick |-> 1 - last.tick, op |-> op, id |-> id, ret |-> ret, out |-> out]

\* no producer is inside BTELEM_LOG
AllIdle == \A p \in Producers : prod[p].pc = "idle"

\* no thread is inside a drain call
NoDrain == \A i \in ClientIds : drn[i].pc = "idle"

\* a pointer is the empty tuple when it is NULL and <<x>> when it points
\* to x; a C string is the tuple of its bytes before the terminating NUL
NULL == <<>>
Ptr(x) == <<x>>
Deref(p) == p[1]

SchemaIndex == 0..(BTELEM_MAX_SCHEMA_ENTRIES - 1)

\* ctx->schema[] after memset(ctx, 0, sizeof(*ctx))
NoSchema == [i \in SchemaIndex |-> NULL]

\* nothing registered, serialised or streamed yet
NoWire == [regs |-> 0,
           reg |-> [tick |-> 0, ret |-> 0, entry |-> NULL, prev |-> NULL],
           ser |-> NULL, str |-> NULL,
           inits |-> 0,       \* btelem_init calls made by the program
           init |-> NULL,     \* the last of them: arguments and return value
           ready |-> TRUE]    \* a btelem_init call on this context succeeded

(* ------------------------------------------------------------------ *)
(* btelem_init                                                         *)
(* ------------------------------------------------------------------ *)
\* indices of server->clients[]
ServerSlots == 0..(BTELEM_SERVE_MAX_CLIENTS - 1)

\* the descriptor socket() returns to btelem_serve, and the descriptors
\* accept() returns: a fresh one for each connection
ListenFd == 3

ClientFds == (ListenFd + 1)..(ListenFd + MaxConns)

\* struct btelem_client_conn in a server struct the caller zeroed
ZeroConn == [fd |-> 0, btelem_client_id |-> 0, active |-> FALSE]

\* struct btelem_server, zeroed by the caller before btelem_serve
NoServer == [running |-> FALSE, listen_fd |-> 0,
             clients |-> [i \in ServerSlots |-> ZeroConn]]

\* a client thread that does not exist; its locals: schema_size, the index
\* of the next schema chunk, n of the last drain, sc.error
NoThread == [pc |-> "none", schema_size |-> 0, chunk |-> 0, n |-> 0,
             error |-> 0,
             timeouts |-> 0]   \* history: write() calls of the current
                               \* send_all call that timed out

\* no server thread exists; the application thread has not called
\* btelem_serve
NoThreads == [main |-> [pc |-> "app", i |-> 0, ret |-> 0],
              accept |-> [pc |-> "none", fd |-> -1],
              client |-> [i \in ServerSlots |-> NoThread]]

\* a descriptor that is not a socket
NoSock == [state |-> "none", peer |-> "none", out |-> <<>>,
           returned |-> <<>>]    \* history: the positive returns of
                                 \* btelem_drain_packed on this connection

\* no socket exists
NoNet == [listen |-> "none", accepted |-> 0,
          sock |-> [fd \in ClientFds |-> NoSock]]

\* the program does not run the TCP server
ServerOff == srv = NoServer /\ thr = NoThreads /\ net = NoNet

btelem_init(entry_count) ==
    /\ is_power_of_2(entry_count)
    /\ capacity = entry_count
    /\ head = 0
    /\ entries = [i \in 0..(entry_count - 1) |-> ZeroEntry]
    /\ clients = [i \in ClientIds |-> ZeroClient]
    /\ schema = NoSchema
    /\ schema_count = 0

InitRest ==
    /\ prod = [p \in Producers |-> IdleProducer]
    /\ drn = [i \in ClientIds |-> IdleDrain]
    /\ clock = 1
    /\ logged = <<>>
    /\ hist = [i \in ClientIds |-> NoHist]
    /\ last = NoLast
    /\ endianness = 0
    /\ nullread = "fault"
    /\ wire = NoWire
    /\ ServerOff

(* ------------------------------------------------------------------ *)
(* BTELEM_LOG                                                          *)
(* ------------------------------------------------------------------ *)
\* the slot after the one the claim selects
SlotOf_Next(p) == BitAnd(prod[p].slot + 1, mask)

\* &r->entries[slot & r->mask]
SlotOf(p) == BitAnd(prod[p].slot, mask)

\* any drain in progress now overlaps producer activity
Disturb(d) == [i \in ClientIds |-> [d[i] EXCEPT !.quiet = FALSE]]

\* slot = fetch_add(head, 1)
Log_claim(p, tag) ==
    /\ prod[p].pc = "idle"
    /\ p \in scn.prods
    /\ head < scn.maxlogs
    /\ scn.concurrent \/ NoDrain
    /\ head' = head + 1
    /\ prod' = [prod EXCEPT ![p] =
                  [pc |-> "invalidate", slot |-> head, tag |-> tag,
                   data |-> DataOf(p, prod[p].n + 1, tag),
                   n |-> prod[p].n + 1, sb |-> prod[p].sb]]
    /\ logged' = Append(logged,
                  [by |-> p, id |-> tag, payload_size |-> SizeOfData(tag),
                   payload |-> DataOf(p, prod[p].n + 1, tag)])
    /\ drn' = Disturb(drn)
    /\ UNCHANGED <<capacity, entries, clients, clock, scn, outside, hist, last>>

\* the drains that have loaded seq of the slot producer p claimed, for an
\* earlier claim of it, and have not loaded it again yet
Copying(p) ==
    {i \in ClientIds :
        /\ drn[i].pc \in {"copy_timestamp", "copy_id", "copy_payload_size",
                          "copy_payload", "check_seq"}
        /\ BitAnd(clients[i].cursor, mask) = SlotOf(p)
        /\ clients[i].cursor < prod[p].slot}

\* the store of 0 falls between those two loads
Overtaken(d, p) ==
    [i \in ClientIds |-> IF i \in Copying(p) THEN [d[i] EXCEPT !.hit = TRUE]
                         ELSE d[i]]

\* a producer that waits until no consumer is inside a drain
Log_invalidate_Waits(p) ==
    /\ prod[p].pc = "invalidate"
    /\ NoDrain
    /\ entries' = [entries EXCEPT ![SlotOf(p)].seq = 0]
    /\ prod' = [prod EXCEPT ![p].pc = "timestamp"]
    /\ drn' = Overtaken(drn, p)
    /\ UNCHANGED <<capacity, head, clients, clock, scn, outside, logged,
                   hist, last>>

\* store_rel(&e->seq, 0)
Log_invalidate(p) ==
    /\ prod[p].pc = "invalidate"
    /\ entries' = [entries EXCEPT ![SlotOf(p)].seq = 0]
    /\ prod' = [prod EXCEPT ![p].pc = "timestamp"]
    /\ drn' = Overtaken(drn, p)
    /\ UNCHANGED <<capacity, head, clients, clock, scn, outside, logged,
                   hist, last>>

\* e->timestamp = BTELEM_TIMESTAMP()
Log_timestamp(p) ==
    /\ prod[p].pc = "timestamp"
    /\ entries' = [entries EXCEPT ![SlotOf(p)].timestamp = clock]
    /\ clock' = clock + 1
    /\ prod' = [prod EXCEPT ![p].pc = "id"]
    /\ UNCHANGED <<capacity, head, clients, drn, scn, outside, logged, hist,
                   last>>

\* e->id = BTELEM_ID_##tag
Log_id(p) ==
    /\ prod[p].pc = "id"
    /\ entries' = [entries EXCEPT ![SlotOf(p)].id = prod[p].tag]
    /\ prod' = [prod EXCEPT ![p].pc = "payload_size"]
    /\ UNCHANGED <<capacity, head, clients, drn, clock, scn, outside, logged,
                   hist, last>>

\* e->payload_size = (uint16_t)sizeof(data)
Log_payload_size(p) ==
    /\ prod[p].pc = "payload_size"
    /\ entries' = [entries EXCEPT
                     ![SlotOf(p)].payload_size = Len(prod[p].data) % UINT16_MOD]
    /\ prod' = [prod EXCEPT ![p].pc = "memcpy"]
    /\ UNCHANGED <<capacity, head, clients, drn, clock, scn, outside, logged,
                   hist, last>>

\* memcpy(e->payload, &data, sizeof(data)): bytes past sizeof(data) keep
\* what the slot held before
Log_memcpy(p) ==
    /\ prod[p].pc = "memcpy"
    /\ entries' = [entries EXCEPT ![SlotOf(p)].payload =
                     [k \in 1..MaxDataLen |->
                        IF k <= Len(prod[p].data) THEN prod[p].data[k]
                        ELSE entries[SlotOf(p)].payload[k]]]
    /\ prod' = [prod EXCEPT ![p].pc = "publish"]
    /\ UNCHANGED <<capacity, head, clients, drn, clock, scn, outside, logged,
                   hist, last>>

\* store_rel(&e->seq, slot + 1)
Log_publish(p) ==
    /\ prod[p].pc = "publish"
    /\ entries' = [entries EXCEPT ![SlotOf(p)].seq = prod[p].slot + 1]
    /\ prod' = [prod EXCEPT ![p] = [IdleProducer EXCEPT !.n = prod[p].n]]
    /\ UNCHANGED <<capacity, head, clients, drn, clock, scn, outside, logged,
                   hist, last>>

(* ------------------------------------------------------------------ *)
(* btelem_client_open                                                  *)
(* ------------------------------------------------------------------ *)
ActiveClients == {i \in ClientIds : clients[i].active}

\* a scan that settles on the lowest slot, active or not
FirstFree_Zero == CHOOSE i \in ClientIds : \A j \in ClientIds : i <= j

\* first inactive slot of ctx->clients[], as the for loop finds it
FirstFree == CHOOSE i \in ClientIds :
                /\ ~clients[i].active
                /\ \A j \in ClientIds : j < i => clients[j].active

\* oldest = max(0, head - capacity)
Oldest == IF head > capacity THEN head - capacity ELSE 0

\* a consumer that replays the ring from the oldest claim it still holds
OpenCursor_Replay == Oldest

\* ctx->clients[i].cursor = load_acq(&ctx->ring->head)
OpenCursor == head

\* the filter table and flag that a list of ids sets; filter_ids is given
\* as the set of its elements, filter_count is its size
FilterOf(c, filter_ids) ==
    [c EXCEPT !.filter_active = (filter_ids # {}),
              !.filter = {f \in filter_ids : f < BTELEM_MAX_SCHEMA_ENTRIES}]

btelem_client_open(filter_ids) ==
    /\ Cardinality(ActiveClients) < scn.maxopen \/ ActiveClients = ClientIds
    /\ scn.openlate \/ head = 0
    /\ IF \E i \in ClientIds : ~clients[i].active
       THEN LET i == FirstFree IN
            /\ clients' = [clients EXCEPT ![i] =
                 FilterOf([clients[i] EXCEPT !.cursor = OpenCursor,
                                             !.dropped = 0,
                                             !.dropped_reported = 0,
                                             !.active = TRUE],
                          filter_ids)]
            /\ hist' = [hist EXCEPT ![i] = [NoHist EXCEPT !.opened_at = head]]
            /\ last' = Called("open", i, i, 0)
       ELSE /\ last' = Called("open", -1, -1, 0)
            /\ UNCHANGED <<clients, hist>>
    /\ UNCHANGED <<capacity, head, entries, prod, drn, clock, scn, outside,
                   logged>>

\* client ids a caller may pass: every slot, one below and one above
AnyClientId == (-1)..BTELEM_MAX_CLIENTS

\* the caller closes a consumer between its drain calls
btelem_client_close(client_id) ==
    /\ "close" \in scn.api
    /\ client_id \in ClientIds => drn[client_id].pc = "idle"
    /\ clients' = IF client_id \in ClientIds
                  THEN [clients EXCEPT ![client_id].active = FALSE]
                  ELSE clients
    /\ last' = Called("close", client_id, 0, 0)
    /\ UNCHANGED <<capacity, head, entries, prod, drn, clock, scn, outside,
                   logged, hist>>

\* the caller changes a consumer's filter between its drain calls
btelem_client_set_filter(client_id, filter_ids) ==
    /\ "set_filter" \in scn.api
    /\ client_id \in ClientIds => drn[client_id].pc = "idle"
    /\ clients' = IF client_id \in ClientIds
                  THEN [clients EXCEPT ![client_id] = FilterOf(@, filter_ids)]
                  ELSE clients
    /\ last' = Called("set_filter", client_id, 0, 0)
    /\ UNCHANGED <<capacity, head, entries, prod, drn, clock, scn, outside,
                   logged, hist>>

\* an availability query that runs the overwrite detection of the drains
AvailableClient_Syncs(c, h) ==
    IF h > capacity /\ c.cursor < h - capacity
    THEN [c EXCEPT !.dropped = c.dropped + ((h - capacity) - c.cursor),
                   !.cursor = h - capacity]
    ELSE c

\* *c as the call leaves it: the function reads c->cursor and stores to no
\* field of the consumer
AvailableClient(c, h) == c

\* avail and *dropped as the call leaves them; dropped_in is what the
\* caller's variable held before the call
btelem_client_available(client_id, dropped_in) ==
    /\ "available" \in scn.api
    /\ IF client_id \notin ClientIds
       THEN /\ last' = Called("available", client_id, 0, dropped_in)
            /\ UNCHANGED clients
       ELSE LET c == clients[client_id]
                oldest == IF head > capacity THEN head - capacity ELSE 0
            IN /\ IF head > c.cursor
                  THEN IF c.cursor < oldest
                       THEN last' = Called("available", client_id,
                                           head - oldest, oldest - c.cursor)
                       ELSE last' = Called("available", client_id,
                                           head - c.cursor, 0)
                  ELSE last' = Called("available", client_id, 0, dropped_in)
               /\ clients' = [clients EXCEPT
                                ![client_id] = AvailableClient(c, head)]
    /\ UNCHANGED <<capacity, head, entries, prod, drn, clock, scn, outside,
                   logged, hist>>

(* ------------------------------------------------------------------ *)
(* The walk shared by btelem_drain and btelem_drain_packed             *)
(* ------------------------------------------------------------------ *)
CursorSlot(i) == BitAnd(clients[i].cursor, mask)

\* the jump to oldest without the addition to c->dropped
DetectOverwrite_Uncounted(c, h) ==
    IF h > capacity /\ c.cursor < h - capacity
    THEN [c EXCEPT !.cursor = h - capacity]
    ELSE c

\* oldest taken one too high
DetectOverwrite_OffByOne(c, h) ==
    IF h > capacity /\ c.cursor < h - capacity + 1
    THEN [c EXCEPT !.dropped = c.dropped + ((h - capacity + 1) - c.cursor),
                   !.cursor = h - capacity + 1]
    ELSE c

\* "Detect overwrite": the client record after the jump to oldest
DetectOverwrite(c, h) ==
    IF h > capacity /\ c.cursor < h - capacity
    THEN [c EXCEPT !.dropped = c.dropped + ((h - capacity) - c.cursor),
                   !.cursor = h - capacity]
    ELSE c

\* claim values the jump to oldest skips
Overwritten(c, h) ==
    IF h > capacity /\ c.cursor < h - capacity
    THEN c.cursor..(h - capacity - 1)
    ELSE {}

\* the cursor left where it is
Advance_Stuck(c) == c

\* c->cursor++
Advance(c) == [c EXCEPT !.cursor = c.cursor + 1]

\* a drop counted twice
CountDrop_Twice(c) == [c EXCEPT !.dropped = c.dropped + 2]

\* c->dropped++
CountDrop(c) == [c EXCEPT !.dropped = c.dropped + 1]

\* a filter that lets every id through
FilterRejects_Never(c, id) == FALSE

\* c->filter_active && !c->filter[local.id]
FilterRejects(c, id) == c.filter_active /\ id \notin c.filter

\* memcpy(&local, e, sizeof(local)), one field per step
CopyField(i, pc, next) ==
    /\ drn[i].pc = pc
    /\ LET e == entries[CursorSlot(i)] IN
       drn' = [drn EXCEPT ![i].pc = next,
                          ![i].local =
                 CASE pc = "copy_timestamp"    -> [@ EXCEPT !.timestamp = e.timestamp]
                   [] pc = "copy_id"           -> [@ EXCEPT !.id = e.id]
                   [] pc = "copy_payload_size" -> [@ EXCEPT !.payload_size = e.payload_size]
                   [] pc = "copy_payload"      -> [@ EXCEPT !.payload = e.payload]]
    /\ UNCHANGED <<capacity, head, entries, clients, prod, clock, scn, outside,
                   logged, hist, last>>

(* ------------------------------------------------------------------ *)
(* btelem_drain                                                        *)
(* ------------------------------------------------------------------ *)
\* the call returns `ret`: the thread is idle again
DrainReturn(i, d, h, ret) ==
    /\ drn' = [drn EXCEPT ![i] = IdleDrain]
    /\ hist' = [hist EXCEPT ![i] =
                 [h EXCEPT !.calls = Min(@ + 1, 2),
                           !.all_quiet = @ /\ d.quiet,
                           !.lastcall =
                    [NoCall EXCEPT !.kind = "drain", !.ret = ret,
                                   !.quiet = d.quiet, !.head = d.head]]]

\* a loop that tests the cursor against the ring's head as it is now
DrainContinue_ReloadHead(i, c, d, h) ==
    IF c.cursor < head
    THEN /\ drn' = [drn EXCEPT ![i] =
                     [d EXCEPT !.pc = "load_seq", !.iters = @ + 1,
                               !.hit = FALSE]]
         /\ hist' = [hist EXCEPT ![i] = h]
    ELSE DrainReturn(i, d, h, d.emitted)

\* while (c->cursor < head): next iteration, or fall out of the loop
DrainContinue(i, c, d, h) ==
    IF c.cursor < d.head
    THEN /\ drn' = [drn EXCEPT ![i] =
                     [d EXCEPT !.pc = "load_seq", !.iters = @ + 1,
                               !.hit = FALSE]]
         /\ hist' = [hist EXCEPT ![i] = h]
    ELSE DrainReturn(i, d, h, d.emitted)

\* the range check without the test of c->active
InvalidConsumer_RangeOnly(i) == i \notin ClientIds

\* client_id < 0 || client_id >= BTELEM_MAX_CLIENTS, or !c->active
InvalidConsumer(i) == i \notin ClientIds \/ ~clients[i].active

\* entry checks, head = load_acq(&r->head), overwrite detection
btelem_drain_begin(i) ==
    /\ "drain" \in scn.kinds
    /\ IF InvalidConsumer(i)
       THEN /\ "reject" \in scn.api
            /\ last' = Called("drain", i, -1, 0)
            /\ UNCHANGED <<clients, drn, hist>>
       ELSE /\ drn[i].pc = "idle"
            /\ scn.concurrent \/ AllIdle
            /\ LET c == DetectOverwrite(clients[i], head)
                   d == [IdleDrain EXCEPT !.kind = "drain", !.head = head,
                                          !.quiet = AllIdle,
                                          !.cursor0 = clients[i].cursor]
                   h == [hist[i] EXCEPT
                           !.dropped_claims = @ \cup Overwritten(clients[i], head),
                           !.kinds = @ \cup {"drain"}]
               IN /\ clients' = [clients EXCEPT ![i] = c]
                  /\ DrainContinue(i, c, d, h)
            /\ UNCHANGED last
    /\ UNCHANGED <<capacity, head, entries, prod, clock, scn, outside, logged>>

\* seq = load_acq(&e->seq); if (seq != c->cursor + 1) break
btelem_drain_load_seq(i) ==
    /\ drn[i].pc = "load_seq"
    /\ drn[i].kind = "drain"
    /\ LET seq == entries[CursorSlot(i)].seq IN
       IF seq # clients[i].cursor + 1
       THEN DrainReturn(i, drn[i], hist[i], drn[i].emitted)
       ELSE /\ drn' = [drn EXCEPT ![i].pc = "copy_timestamp", ![i].seq = seq]
            /\ UNCHANGED hist
    /\ UNCHANGED <<capacity, head, entries, clients, prod, clock, scn,
                   outside, logged, last>>

btelem_drain_copy(i) ==
    /\ drn[i].kind = "drain"
    /\ \/ CopyField(i, "copy_timestamp", "copy_id")
       \/ CopyField(i, "copy_id", "copy_payload_size")
       \/ CopyField(i, "copy_payload_size", "copy_payload")
       \/ CopyField(i, "copy_payload", "check_seq")

\* a drain that goes on whatever the callback returns
CallbackStops_Never(r) == FALSE

\* if (emit(&local, user) != 0) break
CallbackStops(r) == r # 0

\* seq2 = load_acq(&e->seq) and the rest of the iteration: drop, or advance
\* the cursor, apply the filter and call emit(&local, user), which returns r
btelem_drain_check_seq(i, r) ==
    /\ drn[i].pc = "check_seq"
    /\ drn[i].kind = "drain"
    /\ LET c    == clients[i]
           d    == drn[i]
           seq2 == entries[CursorSlot(i)].seq
           adv  == Advance(c)
       IN
       IF seq2 # d.seq
       THEN /\ clients' = [clients EXCEPT ![i] = Advance(CountDrop(c))]
            /\ DrainContinue(i, adv, d,
                 [hist[i] EXCEPT !.dropped_claims = @ \cup {c.cursor},
                                 !.overtaken = IF d.hit THEN @ \cup {c.cursor}
                                               ELSE @])
       ELSE /\ clients' = [clients EXCEPT ![i] = adv]
            /\ IF FilterRejects(c, d.local.id)
               THEN DrainContinue(i, adv, d, hist[i])
               ELSE LET h == [hist[i] EXCEPT
                                !.emitted = Append(@,
                                   [slot |-> c.cursor, entry |-> d.local]),
                                !.cb_stopped = @ \/ (r # 0),
                                !.stopped_at = IF r # 0 THEN @ \cup {c.cursor}
                                               ELSE @]
                    IN IF CallbackStops(r)
                       THEN DrainReturn(i, d, h, d.emitted)
                       ELSE DrainContinue(i, adv,
                              [d EXCEPT !.emitted = d.emitted + 1], h)
    /\ UNCHANGED <<capacity, head, entries, prod, clock, scn, outside,
                   logged, last>>

(* ------------------------------------------------------------------ *)
(* btelem_drain_packed                                                 *)
(* ------------------------------------------------------------------ *)
\* pkt->dropped = (drop_delta > UINT32_MAX) ? UINT32_MAX : (uint32_t)drop_delta
\* (the comparison is made on the upper half, as 2^32 is past what the
\* checker's integers hold)
ClampDropped(drop_delta) ==
    IF drop_delta \div UINT16_MOD >= UINT16_MOD THEN UINT32_MAX ELSE drop_delta

\* a packet that reports the cumulative counter instead of the delta
DropDelta_Cumulative(c) == c.dropped

\* drop_delta = c->dropped - c->dropped_reported
DropDelta(c) == c.dropped - c.dropped_reported

\* entry headers counted as if a partial one could be used
MaxEntries_RoundUp(buf_size, available) ==
    Min((buf_size - PACKET_HEADER_SIZE + ENTRY_HEADER_SIZE) \div ENTRY_HEADER_SIZE,
        available)

\* max_entries = min(space_after_hdr / sizeof(entry_header), available)
MaxEntries(buf_size, available) ==
    Min((buf_size - PACKET_HEADER_SIZE) \div ENTRY_HEADER_SIZE, available)

\* a payload area sized as if the entry table took no room
PayloadCapacity_NoTable(buf_size, max_entries) ==
    buf_size - PACKET_HEADER_SIZE

\* payload_capacity = buf_size - sizeof(*pkt) - max_entries * sizeof(entry_header)
PayloadCapacity(buf_size, max_entries) ==
    buf_size - PACKET_HEADER_SIZE - max_entries * ENTRY_HEADER_SIZE

\* payload_buf: the offset in buf right after the worst-case entry table
PayloadBuf(max_entries) ==
    PACKET_HEADER_SIZE + max_entries * ENTRY_HEADER_SIZE

\* the payload bytes of buf after the loop, by their offset in buf
PayloadWritten(d) ==
    [o \in PayloadBuf(d.max_entries)
             ..(PayloadBuf(d.max_entries) + d.payload_offset - 1) |->
        d.payload_buf[o - PayloadBuf(d.max_entries) + 1]]

\* memmove(dst, src, n) on bytes held by offset
Memmove(bytes, dst, src, n) ==
    [o \in DOMAIN bytes \cup dst..(dst + n - 1) |->
        IF o \in dst..(dst + n - 1) THEN bytes[o - dst + src] ELSE bytes[o]]

\* the first ret bytes of buf: the packet header, the entry table and the
\* payload bytes by their offset in buf
Packet(d, dropped, payload_start) ==
    LET ret == payload_start + d.payload_offset
        moved == IF payload_start # PayloadBuf(d.max_entries)
                 THEN Memmove(PayloadWritten(d), payload_start,
                              PayloadBuf(d.max_entries), d.payload_offset)
                 ELSE PayloadWritten(d)
    IN [entry_count |-> d.entry_count, flags |-> 0,
        payload_size |-> d.payload_offset, dropped |-> dropped, reserved |-> 0,
        table |-> d.table,
        bytes |-> [o \in {x \in DOMAIN moved : x < ret} |-> moved[o]]]

\* a return before the walk: nothing is written to buf
PackedReturnEarly(i, h, ret, buf_size, quiet) ==
    /\ drn' = [drn EXCEPT ![i] = IdleDrain]
    /\ hist' = [hist EXCEPT ![i] =
                 [h EXCEPT !.calls = Min(@ + 1, 2),
                           !.all_quiet = @ /\ quiet,
                           !.lastcall =
                    [NoCall EXCEPT !.kind = "drain_packed", !.ret = ret,
                                   !.quiet = quiet, !.head = head,
                                   !.buf_size = buf_size,
                                   !.reported_before = clients[i].dropped_reported]]]

\* after the loop: return 0, or close the gap, fill the header and return
\* the packet size; c is the client record the walk left
PackedFinish(i, c, d, h) ==
    IF d.entry_count = 0
    THEN /\ clients' = [clients EXCEPT ![i] = c]
         /\ drn' = [drn EXCEPT ![i] = IdleDrain]
         /\ hist' = [hist EXCEPT ![i] =
                      [h EXCEPT !.calls = Min(@ + 1, 2),
                                !.all_quiet = @ /\ d.quiet,
                                !.lastcall =
                         [NoCall EXCEPT !.kind = "drain_packed", !.ret = 0,
                                        !.quiet = d.quiet, !.head = d.head,
                                        !.buf_size = d.buf_size,
                                        !.reported_before = c.dropped_reported]]]
    ELSE LET actual_payload_start ==
                 PACKET_HEADER_SIZE + d.entry_count * ENTRY_HEADER_SIZE
             drop_delta  == DropDelta(c)
             pkt_dropped == ClampDropped(drop_delta)
         IN /\ clients' = [clients EXCEPT ![i] =
                 [c EXCEPT !.dropped_reported = c.dropped_reported + pkt_dropped]]
            /\ drn' = [drn EXCEPT ![i] = IdleDrain]
            /\ hist' = [hist EXCEPT ![i] =
                 [h EXCEPT
                    !.calls = Min(@ + 1, 2),
                    !.all_quiet = @ /\ d.quiet,
                    !.packets = @ + 1,
                    !.pkt_dropped_sum = @ + pkt_dropped,
                    !.lastcall =
                      [kind |-> "drain_packed",
                       ret |-> PACKET_HEADER_SIZE
                               + d.entry_count * ENTRY_HEADER_SIZE
                               + d.payload_offset,
                       quiet |-> d.quiet, head |-> d.head,
                       buf_size |-> d.buf_size,
                       packet |-> Packet(d, pkt_dropped, actual_payload_start),
                       drop_delta |-> drop_delta,
                       reported_before |-> c.dropped_reported]]]

\* while (c->cursor < head): next iteration, or leave the loop
PackedContinue(i, c, d, h) ==
    IF c.cursor < d.head
    THEN /\ clients' = [clients EXCEPT ![i] = c]
         /\ drn' = [drn EXCEPT ![i] =
                     [d EXCEPT !.pc = "load_seq", !.iters = @ + 1,
                               !.hit = FALSE]]
         /\ hist' = [hist EXCEPT ![i] = h]
    ELSE PackedFinish(i, c, d, h)

\* entry checks, head = load_acq(&r->head), overwrite detection, buffer sizing
btelem_drain_packed_begin(i, buf_size) ==
    /\ "drain_packed" \in scn.kinds
    /\ IF InvalidConsumer(i)
       THEN /\ "reject" \in scn.api
            /\ last' = Called("drain_packed", i, -1, 0)
            /\ UNCHANGED <<clients, drn, hist>>
       ELSE /\ drn[i].pc = "idle"
            /\ scn.concurrent \/ AllIdle
            /\ LET c == DetectOverwrite(clients[i], head)
                   h == [hist[i] EXCEPT
                           !.dropped_claims = @ \cup Overwritten(clients[i], head),
                           !.kinds = @ \cup {"drain_packed"},
                           !.held = IF buf_size = PACKET_HEADER_SIZE
                                    THEN @ \cup c.cursor..(head - 1) ELSE @]
                   available   == Min(head - c.cursor, capacity)
                   max_entries == MaxEntries(buf_size, available)
               IN /\ clients' = [clients EXCEPT ![i] = c]
                  /\ IF c.cursor >= head
                     THEN PackedReturnEarly(i, h, 0, buf_size, AllIdle)
                     ELSE IF buf_size < PACKET_HEADER_SIZE
                     THEN PackedReturnEarly(i, h, -1, buf_size, AllIdle)
                     ELSE IF max_entries = 0
                     THEN PackedReturnEarly(i, h, 0, buf_size, AllIdle)
                     ELSE /\ drn' = [drn EXCEPT ![i] =
                               [IdleDrain EXCEPT
                                  !.pc = "load_seq", !.kind = "drain_packed",
                                  !.iters = 1,
                                  !.head = head, !.quiet = AllIdle,
                                  !.buf_size = buf_size,
                                  !.cursor0 = clients[i].cursor,
                                  !.max_entries = max_entries,
                                  !.payload_capacity =
                                      PayloadCapacity(buf_size, max_entries)]]
                          /\ hist' = [hist EXCEPT ![i] = h]
                  /\ last' = IF c.cursor < head /\ buf_size < PACKET_HEADER_SIZE
                             THEN Called("drain_packed", i, -1, 0)
                             ELSE last
    /\ UNCHANGED <<capacity, head, entries, prod, clock, scn, outside, logged>>

\* seq = load_acq(&e->seq); if (seq != c->cursor + 1) break
btelem_drain_packed_load_seq(i) ==
    /\ drn[i].pc = "load_seq"
    /\ drn[i].kind = "drain_packed"
    /\ LET seq == entries[CursorSlot(i)].seq IN
       IF seq # clients[i].cursor + 1
       THEN PackedFinish(i, clients[i], drn[i], hist[i])
       ELSE /\ drn' = [drn EXCEPT ![i].pc = "copy_timestamp", ![i].seq = seq]
            /\ UNCHANGED <<clients, hist>>
    /\ UNCHANGED <<capacity, head, entries, prod, clock, scn, outside,
                   logged, last>>

btelem_drain_packed_copy(i) ==
    /\ drn[i].kind = "drain_packed"
    /\ \/ CopyField(i, "copy_timestamp", "copy_id")
       \/ CopyField(i, "copy_id", "copy_payload_size")
       \/ CopyField(i, "copy_payload_size", "copy_payload")
       \/ CopyField(i, "copy_payload", "check_seq")

\* the entry header and payload bytes one kept entry adds to the buffer
PackedAppend(d) ==
    [d EXCEPT
       !.table = Append(@, [id |-> d.local.id,
                            payload_size |-> d.local.payload_size,
                            payload_offset |-> d.payload_offset,
                            timestamp |-> d.local.timestamp]),
       !.payload_buf = @ \o [k \in 1..d.local.payload_size |-> d.local.payload[k]],
       !.payload_offset = @ + d.local.payload_size,
       !.entry_count = (@ + 1) % UINT16_MOD]

\* seq2 = load_acq(&e->seq) and the rest of the iteration
btelem_drain_packed_check_seq(i) ==
    /\ drn[i].pc = "check_seq"
    /\ drn[i].kind = "drain_packed"
    /\ LET c    == clients[i]
           d    == drn[i]
           seq2 == entries[CursorSlot(i)].seq
           adv  == Advance(c)
       IN
       IF seq2 # d.seq
       THEN PackedContinue(i, Advance(CountDrop(c)), d,
                 [hist[i] EXCEPT !.dropped_claims = @ \cup {c.cursor},
                                 !.overtaken = IF d.hit THEN @ \cup {c.cursor}
                                               ELSE @])
       ELSE IF FilterRejects(c, d.local.id)
       THEN PackedContinue(i, adv, d, hist[i])
       ELSE IF d.payload_offset + d.local.payload_size > d.payload_capacity
       THEN PackedFinish(i, adv, d, hist[i])
       ELSE IF d.entry_count >= d.max_entries % UINT16_MOD
       THEN PackedFinish(i, adv, d, hist[i])
       ELSE PackedContinue(i, adv, PackedAppend(d),
              [hist[i] EXCEPT !.emitted = Append(@,
                  [slot |-> c.cursor, entry |-> d.local])])
    /\ UNCHANGED <<capacity, head, entries, prod, clock, scn, outside,
                   logged, last>>

(* ------------------------------------------------------------------ *)
(* Specifications                                                      *)
(* ------------------------------------------------------------------ *)
\* the calls of the application's threads; none of them touches the server
Log(p) ==
    \/ \E tag \in scn.tags : Log_claim(p, tag) /\ UNCHANGED server_side
    \/ Log_invalidate(p) /\ UNCHANGED server_side
    \/ Log_timestamp(p) /\ UNCHANGED server_side
    \/ Log_id(p) /\ UNCHANGED server_side
    \/ Log_payload_size(p) /\ UNCHANGED server_side
    \/ Log_memcpy(p) /\ UNCHANGED server_side
    \/ Log_publish(p) /\ UNCHANGED server_side

Open == \E f \in scn.filters : btelem_client_open(f) /\ UNCHANGED server_side

Drain(i) ==
    \/ btelem_drain_begin(i) /\ UNCHANGED server_side
    \/ i \in ClientIds /\ btelem_drain_load_seq(i) /\ UNCHANGED server_side
    \/ i \in ClientIds /\ btelem_drain_copy(i) /\ UNCHANGED server_side
    \/ /\ i \in ClientIds
       /\ \E r \in scn.cbrets : btelem_drain_check_seq(i, r)
       /\ UNCHANGED server_side

Scenario(concurrent, prods, tags, maxlogs, maxopen, openlate, kinds, filters,
         cbrets, bufs) ==
    [concurrent |-> concurrent,
     prods |-> prods, tags |-> tags, maxlogs |-> maxlogs, maxopen |-> maxopen,
     openlate |-> openlate, kinds |-> kinds, filters |-> filters,
     cbrets |-> cbrets, bufs |-> bufs,
     api |-> {}, ids |-> ClientIds, descs |-> {}]

\* a scenario that also makes the calls named in api, drains with the client
\* ids in ids
WithApi(s, api, ids) == [s EXCEPT !.api = api, !.ids = ids]

DrainPacked(i) ==
    \/ /\ \E b \in scn.bufs : btelem_drain_packed_begin(i, b)
       /\ UNCHANGED server_side
    \/ /\ i \in ClientIds
       /\ btelem_drain_packed_load_seq(i)
       /\ UNCHANGED server_side
    \/ /\ i \in ClientIds
       /\ btelem_drain_packed_copy(i)
       /\ UNCHANGED server_side
    \/ /\ i \in ClientIds
       /\ btelem_drain_packed_check_seq(i)
       /\ UNCHANGED server_side

\* one producer thread and one accept-all consumer, opened at any time,
\* draining by callback while the producer logs
InitDrain ==
    /\ \E n \in Capacities : btelem_init(n)
    /\ InitRest
    /\ scn = Scenario(TRUE, {1}, {0}, MaxLogs, 1, TRUE, {"drain"}, {{}}, {0}, {})

NextDrain ==
    \/ \E p \in Producers : Log(p)
    \/ Open
    \/ \E i \in scn.ids : Drain(i)

SpecDrain == InitDrain /\ [][NextDrain]_vars

\* buffer sizes: below a packet header, exactly a header, a header and one
\* entry header plus one or two bytes, two entry headers and one byte, ample
BufSizes == {PACKET_HEADER_SIZE - 1,
             PACKET_HEADER_SIZE,
             PACKET_HEADER_SIZE + ENTRY_HEADER_SIZE + 1,
             PACKET_HEADER_SIZE + ENTRY_HEADER_SIZE + 2,
             PACKET_HEADER_SIZE + 2 * ENTRY_HEADER_SIZE + 1,
             4096}

\* one producer thread and one consumer draining into packets: drains
\* between log calls with every buffer size, the same with a filter on id 1,
\* or drains that run while the producer logs
InitPacked ==
    /\ \E n \in Capacities : btelem_init(n)
    /\ InitRest
    /\ \/ scn = Scenario(FALSE, {1}, Tags, MaxLogs, 1, FALSE,
                          {"drain_packed"}, {{}}, {0}, BufSizes)
       \/ scn = Scenario(FALSE, {1}, Tags, MaxLogs, 1, FALSE,
                          {"drain_packed"}, {{1}}, {0},
                          {PACKET_HEADER_SIZE + ENTRY_HEADER_SIZE + 1, 4096})
       \/ scn = Scenario(TRUE, {1}, {0}, MaxLogs, 1, FALSE,
                          {"drain_packed"}, {{}}, {0},
                          {PACKET_HEADER_SIZE + ENTRY_HEADER_SIZE + 1, 4096})

NextPacked ==
    \/ \E p \in Producers : Log(p)
    \/ Open
    \/ \E i \in scn.ids : DrainPacked(i)

SpecPacked == InitPacked /\ [][NextPacked]_vars

Close == \E id \in scn.ids : btelem_client_close(id) /\ UNCHANGED server_side

SetFilter ==
    \E id \in scn.ids : \E f \in scn.filters :
        btelem_client_set_filter(id, f) /\ UNCHANGED server_side

\* what the caller's dropped variable may hold before the call
Uninitialised == {0, 5}

Available ==
    \E id \in scn.ids : \E d \in Uninitialised :
        btelem_client_available(id, d) /\ UNCHANGED server_side

NextApi ==
    \/ \E p \in Producers : Log(p)
    \/ Open
    \/ Close
    \/ SetFilter
    \/ Available
    \/ \E i \in scn.ids : Drain(i)
    \/ \E i \in scn.ids : DrainPacked(i)

\* the consumer interface, called between the log calls of one thread:
\* consumers opened and closed until the table is full, nothing logged; or
\* one consumer slot, filters set and changed, drained both ways; or
\* one slot opened, closed and reopened at any time, drained by callback; or
\* one slot, opened and closed, drained both ways with client ids in and
\* out of range; or
\* one slot, drained into buffers too small for an entry or ample; or
\* one slot, btelem_client_available between callback drains
InitApi ==
    /\ \E n \in Capacities : btelem_init(n)
    /\ InitRest
    /\ \/ scn = WithApi(Scenario(FALSE, {}, {0}, 0, BTELEM_MAX_CLIENTS, FALSE,
                                  {}, {{}}, {0}, {}),
                         {"close"}, AnyClientId)
       \/ scn = WithApi(Scenario(FALSE, {1}, Tags, MaxLogs - 1, 1, FALSE,
                                  {"drain", "drain_packed"}, {{}, {1}}, {0},
                                  {4096}),
                         {"set_filter"}, {0})
       \/ scn = WithApi(Scenario(FALSE, {1}, {0}, MaxLogs, 1, TRUE,
                                  {"drain"}, {{}}, {0}, {}),
                         {"close"}, {0})
       \/ scn = WithApi(Scenario(FALSE, {1}, {0}, MaxLogs - 2, 1, FALSE,
                                  {"drain", "drain_packed"}, {{}}, {0}, {4096}),
                         {"close", "reject"}, {-1, 0, 1, BTELEM_MAX_CLIENTS})
       \/ scn = WithApi(Scenario(FALSE, {1}, {0}, MaxLogs, 1, FALSE,
                                  {"drain_packed"}, {{}}, {0},
                                  {PACKET_HEADER_SIZE - 1, PACKET_HEADER_SIZE,
                                   4096}),
                         {}, {0})
       \/ scn = WithApi(Scenario(FALSE, {1}, {0}, MaxLogs, 1, TRUE,
                                  {"drain"}, {{}}, {0}, {}),
                         {"available"}, {-1, 0})

SpecApi == InitApi /\ [][NextApi]_vars

Next ==
    \/ \E p \in Producers : Log(p)
    \/ Open
    \/ \E i \in scn.ids : Drain(i)
    \/ \E i \in scn.ids : DrainPacked(i)

\* one consumer using both drain forms, its callback free to stop a drain;
\* either one producer thread, or all of them with one log call fewer
Init ==
    /\ \E n \in Capacities : btelem_init(n)
    /\ InitRest
    /\ \/ scn = Scenario(TRUE, {1}, {0}, MaxLogs, 1, FALSE,
                         {"drain", "drain_packed"}, {{}}, {0, 1},
                         {PACKET_HEADER_SIZE + ENTRY_HEADER_SIZE + 1, 4096})
       \/ scn = Scenario(TRUE, Producers, {0}, MaxLogs - 1, 1, FALSE,
                         {"drain", "drain_packed"}, {{}}, {0, 1},
                         {PACKET_HEADER_SIZE + ENTRY_HEADER_SIZE + 1, 4096})

Spec == Init /\ [][Next]_vars

\* a ring of one slot, all producers, MaxOpen consumers draining by callback
InitTwo ==
    /\ btelem_init(1)
    /\ InitRest
    /\ scn = Scenario(TRUE, Producers, {0}, MaxLogs - 1, MaxOpen, FALSE,
                      {"drain"}, {{}}, {0}, {})

SpecTwo == InitTwo /\ [][NextDrain]_vars

(* ------------------------------------------------------------------ *)
(* Properties                                                          *)
(* ------------------------------------------------------------------ *)

\* the claim values handed to client i so far, and how many
EmittedSlots(i) == {hist[i].emitted[k].slot : k \in 1..Len(hist[i].emitted)}
EmittedCount(i) == Len(hist[i].emitted)

\* the arguments of the log call that claimed slot value c
LoggedAt(c) == logged[c + 1]

\* the copy a consumer received carries what log call l passed
SameAsLogged(e, l) ==
    /\ e.id = l.id
    /\ e.payload_size = l.payload_size
    /\ \A b \in 1..l.payload_size : e.payload[b] = l.payload[b]

\* every log call so far was made by one and the same thread
SingleProducer ==
    \E p \in Producers : \A k \in 1..Len(logged) : logged[k].by = p

\* client i is between drain calls; its last call was a drain of the given
\* kind that began after every log call there is had returned
DrainedAfterStop(i, kind) ==
    /\ drn[i].pc = "idle"
    /\ AllIdle
    /\ hist[i].lastcall.kind = kind
    /\ hist[i].lastcall.quiet
    /\ hist[i].lastcall.head = head

\* client i accepts every id and its callback has never stopped a drain
AcceptsAll(i) == ~clients[i].filter_active /\ ~hist[i].cb_stopped

\* C1: every entry handed to a callback or copied into a packet for cursor
\* position c carries the id, payload_size and payload bytes of the one
\* BTELEM_LOG call that claimed c, whatever the producers' interleaving.
C1_EmittedIsLogged ==
    \A i \in ActiveClients : \A k \in 1..Len(hist[i].emitted) :
        SameAsLogged(hist[i].emitted[k].entry,
                     LoggedAt(hist[i].emitted[k].slot))

\* C2: one producer thread, one accept-all consumer opened before production:
\* once the producer has stopped and btelem_drain has returned 0, emitted plus
\* dropped equals the number of entries logged.
C2_SingleProducerAccounting ==
    \A i \in ActiveClients :
        ( /\ SingleProducer
          /\ hist[i].opened_at = 0
          /\ AcceptsAll(i)
          /\ hist[i].kinds = {"drain"}
          /\ DrainedAfterStop(i, "drain")
          /\ hist[i].lastcall.ret = 0 )
        => EmittedCount(i) + clients[i].dropped = head

\* C2 witness: the producer lapped the consumer, which drained while the
\* producer ran and has since drained to a return of 0.
C2_Witness ==
    \E i \in ActiveClients :
        /\ SingleProducer
        /\ hist[i].opened_at = 0
        /\ AcceptsAll(i)
        /\ hist[i].kinds = {"drain"}
        /\ DrainedAfterStop(i, "drain")
        /\ hist[i].lastcall.ret = 0
        /\ ~hist[i].all_quiet
        /\ head > capacity
        /\ clients[i].dropped > 0
        /\ EmittedCount(i) > 0

C4_NoSilentSkip ==
    \A i \in ActiveClients :
        ( /\ hist[i].kinds = {"drain_packed"}
          /\ hist[i].all_quiet
          /\ drn[i].pc = "idle" )
        => /\ \A c \in hist[i].opened_at..(clients[i].cursor - 1) :
                 \/ FilterRejects(clients[i], LoggedAt(c).id)
                 \/ c \in hist[i].dropped_claims
                 \/ c \in EmittedSlots(i)
           /\ \A k, l \in 1..Len(hist[i].emitted) :
                 hist[i].emitted[k].slot = hist[i].emitted[l].slot => k = l

\* C5: the claim values of the entries emitted to one consumer, over any
\* sequence of btelem_drain and btelem_drain_packed calls, strictly increase.
C5_StrictlyAscending ==
    \A i \in ActiveClients : \A k \in 1..(Len(hist[i].emitted) - 1) :
        hist[i].emitted[k].slot < hist[i].emitted[k + 1].slot

\* C5 witness: a consumer that used both drain forms has been handed three
\* entries, with a gap in their claim values.
C5_Witness ==
    \E i \in ActiveClients :
        /\ hist[i].kinds = {"drain", "drain_packed"}
        /\ Len(hist[i].emitted) >= 2
        /\ clients[i].dropped > 0
        /\ \E k \in 1..(Len(hist[i].emitted) - 1) :
              hist[i].emitted[k + 1].slot > hist[i].emitted[k].slot + 1

\* the copies two consumers received are the same entry
SameEntry(e, f) ==
    /\ e.id = f.id
    /\ e.timestamp = f.timestamp
    /\ e.payload_size = f.payload_size
    /\ \A b \in 1..e.payload_size : e.payload[b] = f.payload[b]

\* C6: whenever one claim value has been emitted to two different consumers,
\* both received the same id, timestamp, payload_size and payload.
C6_SameData ==
    \A i, j \in ActiveClients :
        \A k \in 1..Len(hist[i].emitted) : \A l \in 1..Len(hist[j].emitted) :
            hist[i].emitted[k].slot = hist[j].emitted[l].slot
            => SameEntry(hist[i].emitted[k].entry, hist[j].emitted[l].entry)

\* the slots and contents of the last n log calls, in log order
NewestLogged(n) ==
    [k \in 1..n |-> [slot |-> head - n + k - 1, log |-> LoggedAt(head - n + k - 1)]]

\* C7: a consumer that did not drain while one thread logged N > capacity
\* entries gets, from its next btelem_drain, exactly the capacity most recent
\* entries in log order, and its dropped counter grows by N - capacity.
C7_WrapAround ==
    \A i \in ActiveClients :
        ( /\ SingleProducer
          /\ AcceptsAll(i)
          /\ hist[i].calls = 1
          /\ DrainedAfterStop(i, "drain")
          /\ head - hist[i].opened_at > capacity )
        => /\ hist[i].lastcall.ret = capacity
           /\ Len(hist[i].emitted) = capacity
           /\ \A k \in 1..capacity :
                 /\ hist[i].emitted[k].slot = NewestLogged(capacity)[k].slot
                 /\ SameAsLogged(hist[i].emitted[k].entry,
                                 NewestLogged(capacity)[k].log)
           /\ clients[i].dropped = (head - hist[i].opened_at) - capacity

\* C7 witness: a ring of two slots, three entries logged, then the first drain.
C7_Witness ==
    \E i \in ActiveClients :
        /\ SingleProducer
        /\ AcceptsAll(i)
        /\ hist[i].calls = 1
        /\ DrainedAfterStop(i, "drain")
        /\ capacity = 2
        /\ head = 3
        /\ clients[i].dropped = 1

\* C8: a consumer that drained only with btelem_drain_packed, after the
\* producers stopped and until a call returned 0: the dropped fields of all
\* packets it was returned add up to its dropped counter.
C8_DroppedSum ==
    \A i \in ActiveClients :
        ( /\ hist[i].kinds = {"drain_packed"}
          /\ DrainedAfterStop(i, "drain_packed")
          /\ hist[i].lastcall.ret = 0 )
        => hist[i].pkt_dropped_sum = clients[i].dropped

\* the step returns a packet to client i
ReturnsPacket(i) == hist'[i].packets = hist[i].packets + 1

\* C9: a step that finalises a packet sets its dropped field to the clamped
\* difference of dropped and dropped_reported and adds exactly that field to
\* dropped_reported; every other step of an open client leaves
\* dropped_reported alone; dropped_reported never exceeds dropped.
C9_DroppedIsDelta ==
    /\ [](\A i \in ClientIds : clients[i].dropped_reported <= clients[i].dropped)
    /\ [][\A i \in ClientIds :
            /\ ReturnsPacket(i) =>
                 /\ hist'[i].lastcall.packet.dropped =
                      ClampDropped(clients'[i].dropped
                                   - clients[i].dropped_reported)
                 /\ clients'[i].dropped_reported =
                      clients[i].dropped_reported
                      + hist'[i].lastcall.packet.dropped
            /\ (clients[i].active /\ ~ReturnsPacket(i)) =>
                 clients'[i].dropped_reported = clients[i].dropped_reported]_vars

\* C9 witness: a second packet reporting no drops, after an earlier packet
\* that reported some, and a call in between that returned no packet.
C9_Witness ==
    \E i \in ActiveClients :
        /\ drn[i].pc = "idle"
        /\ hist[i].packets >= 2
        /\ hist[i].lastcall.kind = "drain_packed"
        /\ hist[i].lastcall.ret > 0
        /\ hist[i].lastcall.packet.dropped = 0
        /\ hist[i].lastcall.reported_before > 0
        /\ clients[i].dropped_reported = clients[i].dropped

RECURSIVE SumPayloadSize(_)
SumPayloadSize(table) ==
    IF table = <<>> THEN 0
    ELSE Head(table).payload_size + SumPayloadSize(Tail(table))

PacketEntries(i) ==
    LET n == Len(hist[i].emitted)
        m == hist[i].lastcall.packet.entry_count
    IN [k \in 1..m |-> hist[i].emitted[n - m + k]]

\* C11: in a returned packet the payload area starts right after the
\* entry_count entry headers, header k has payload_offset equal to the sum of
\* the payload sizes of the headers before it, and the payload_size bytes at
\* that offset are the bytes logged for the entry of header k.
C11_PackedLayout ==
    \A i \in ActiveClients :
        ( /\ drn[i].pc = "idle"
          /\ hist[i].lastcall.kind = "drain_packed"
          /\ hist[i].lastcall.ret > 0 )
        => LET pkt   == hist[i].lastcall.packet
               start == 16 + 16 * pkt.entry_count
           IN \A k \in 1..pkt.entry_count :
                LET eh  == pkt.table[k]
                    log == LoggedAt(PacketEntries(i)[k].slot)
                IN /\ eh.payload_offset =
                        SumPayloadSize(SubSeq(pkt.table, 1, k - 1))
                   /\ eh.id = log.id
                   /\ eh.payload_size = log.payload_size
                   /\ \A b \in 1..eh.payload_size :
                        /\ (start + eh.payload_offset + b - 1) \in DOMAIN pkt.bytes
                        /\ pkt.bytes[start + eh.payload_offset + b - 1]
                             = log.payload[b]

\* the step hands one more entry to client i
Emits(i) == Len(hist'[i].emitted) = Len(hist[i].emitted) + 1

\* the step is the end of a loop iteration of client i's drain in which the
\* second seq load agreed with the first
KeepsEntry(i) ==
    /\ drn[i].pc = "check_seq"
    /\ drn'[i] # drn[i]
    /\ entries[CursorSlot(i)].seq = drn[i].seq

\* C12: an entry is emitted to a consumer with an active filter only if its
\* id is in the filter; an entry the filter rejects advances the cursor and
\* is neither emitted nor counted as dropped; a consumer without a filter is
\* handed the entry whatever its id.
C12_FilterRespected ==
    [][\A i \in ClientIds :
         /\ (Emits(i) /\ clients[i].filter_active) =>
               hist'[i].emitted[Len(hist'[i].emitted)].entry.id
                   \in clients[i].filter
         /\ (KeepsEntry(i) /\ clients[i].filter_active
               /\ drn[i].local.id \notin clients[i].filter) =>
               /\ clients'[i].cursor = clients[i].cursor + 1
               /\ clients'[i].dropped = clients[i].dropped
               /\ hist'[i].emitted = hist[i].emitted
         /\ (KeepsEntry(i) /\ ~clients[i].filter_active) =>
               /\ clients'[i].cursor = clients[i].cursor + 1
               /\ \/ hist'[i].emitted =
                        Append(hist[i].emitted,
                               [slot |-> clients[i].cursor, entry |-> drn[i].local])
                  \/ /\ drn[i].kind = "drain_packed"
                     /\ drn'[i].pc = "idle"
                     /\ hist'[i].emitted = hist[i].emitted]_vars

\* C12 witness: a consumer with a filter has been handed an entry by each
\* drain form and its cursor has passed more entries than it was handed,
\* none of them dropped.
C12_Witness ==
    \E i \in ActiveClients :
        /\ clients[i].filter_active
        /\ hist[i].kinds = {"drain", "drain_packed"}
        /\ Len(hist[i].emitted) >= 1
        /\ clients[i].dropped = 0
        /\ clients[i].cursor - hist[i].opened_at > Len(hist[i].emitted)

\* C15: nothing claimed before a consumer was opened is emitted to it or
\* counted in its dropped counter: its cursor, every claim emitted to it and
\* every claim it counted as dropped are at or after the head at the open.
C15_StartsAtNow ==
    \A i \in ActiveClients :
        /\ clients[i].cursor >= hist[i].opened_at
        /\ \A k \in 1..Len(hist[i].emitted) :
              hist[i].emitted[k].slot >= hist[i].opened_at
        /\ \A c \in hist[i].dropped_claims : c >= hist[i].opened_at
        /\ clients[i].dropped = Cardinality(hist[i].dropped_claims)

\* C15 witness: a consumer opened after the first log call has been handed
\* an entry and has counted a drop.
C15_Witness ==
    \E i \in ActiveClients :
        /\ hist[i].opened_at > 0
        /\ Len(hist[i].emitted) >= 1
        /\ clients[i].dropped >= 1

\* the step is a call of the given client-management or rejected operation
CallOf(ops) == last'.tick # last.tick /\ last'.op \in ops

\* C16: btelem_client_open returns a slot that was inactive, activates it
\* with zeroed counters and the cursor at head, and touches no other slot;
\* it returns -1, changing nothing, exactly when every slot is active;
\* btelem_client_close leaves the slot inactive.
C16_OpenClose ==
    [][/\ CallOf({"open"}) =>
            /\ last'.ret \in (-1)..(BTELEM_MAX_CLIENTS - 1)
            /\ (last'.ret = -1) <=> (\A j \in ClientIds : clients[j].active)
            /\ last'.ret = -1 => clients' = clients
            /\ last'.ret # -1 =>
                 /\ ~clients[last'.ret].active
                 /\ clients'[last'.ret].active
                 /\ clients'[last'.ret].dropped = 0
                 /\ clients'[last'.ret].dropped_reported = 0
                 /\ clients'[last'.ret].cursor = head
                 /\ \A j \in ClientIds \ {last'.ret} : clients'[j] = clients[j]
       /\ (CallOf({"close"}) /\ last'.id \in ClientIds) =>
            /\ ~clients'[last'.id].active
            /\ \A j \in ClientIds \ {last'.id} : clients'[j] = clients[j]]_vars

\* C16 witness: with every slot active, an open has just returned -1.
C16_Witness ==
    /\ ActiveClients = ClientIds
    /\ last.op = "open"
    /\ last.ret = -1

\* C17: a drain call on a client id out of range or on an inactive slot
\* returns a negative value and leaves every consumer, every callback and
\* buffer history untouched; no step runs a drain on an inactive slot; a
\* drain on an active consumer fails only for a buffer below 16 bytes.
C17_InvalidConsumer ==
    /\ [](\A i \in ActiveClients :
            hist[i].lastcall.ret < 0 =>
               /\ hist[i].lastcall.kind = "drain_packed"
               /\ hist[i].lastcall.buf_size < 16)
    /\ [][/\ CallOf({"drain", "drain_packed"}) =>
               /\ last'.ret < 0
               /\ \/ last'.id \notin ClientIds
                  \/ ~clients[last'.id].active
                  \/ /\ last'.op = "drain_packed"
                     /\ hist'[last'.id].lastcall.buf_size < 16
               /\ (last'.id \notin ClientIds \/ ~clients[last'.id].active) =>
                     UNCHANGED <<clients, hist, head, entries>>
          /\ \A i \in ClientIds :
               (~clients[i].active /\ ~clients'[i].active) =>
                  /\ hist'[i] = hist[i]
                  /\ drn'[i].pc = "idle"]_vars

\* C17 witness: btelem_drain_packed has just been refused on a slot that
\* was opened, drained and closed.
C17_Witness ==
    /\ last.op = "drain_packed"
    /\ last.ret = -1
    /\ last.id \in ClientIds
    /\ ~clients[last.id].active
    /\ hist[last.id].calls > 0

\* C18 as stated: a failed drain call leaves head and every slot unchanged
\* and changes no field of any consumer other than dropped.
C18_FailureChangesOnlyDropped ==
    [][CallOf({"drain", "drain_packed"}) =>
          /\ head' = head
          /\ entries' = entries
          /\ \A j \in ClientIds :
               clients'[j] = [clients[j] EXCEPT !.dropped = clients'[j].dropped]]_vars

\* C18 amended: a failed drain call leaves head and every slot unchanged and
\* changes no field of any consumer other than dropped and cursor, which
\* grow by the same amount, the cursor moving only to the oldest entry the
\* ring retains.
C18_FailureKeepsRing ==
    [][CallOf({"drain", "drain_packed"}) =>
          /\ head' = head
          /\ entries' = entries
          /\ \A j \in ClientIds :
               /\ clients'[j] = [clients[j] EXCEPT
                                   !.dropped = clients'[j].dropped,
                                   !.cursor = clients'[j].cursor]
               /\ clients'[j].cursor - clients[j].cursor
                    = clients'[j].dropped - clients[j].dropped
               /\ clients'[j].cursor # clients[j].cursor =>
                    /\ clients[j].cursor < head - capacity
                    /\ clients'[j].cursor = head - capacity]_vars

\* C18 witness: the first drain of a lapped consumer was a btelem_drain_packed
\* with a buffer below a packet header: it failed and counted the drops.
C18_Witness ==
    /\ last.op = "drain_packed"
    /\ last.ret = -1
    /\ last.id \in ActiveClients
    /\ hist[last.id].calls = 1
    /\ hist[last.id].lastcall.ret = -1
    /\ clients[last.id].dropped > 0
    /\ clients[last.id].cursor = head - capacity

\* every buffer a run passes is at most a packet header or holds any batch
HeaderOrAmple ==
    \A b \in scn.bufs :
        \/ b <= PACKET_HEADER_SIZE
        \/ b >= PACKET_HEADER_SIZE + capacity * (ENTRY_HEADER_SIZE + MaxDataLen)

Max(a, b) == IF a > b THEN a ELSE b

\* C20: for an open consumer btelem_client_available returns
\* head - max(cursor, oldest) and
\* leaves max(0, oldest - cursor) in its output parameter, also when
\* nothing is available.
C20_Available ==
    [][(CallOf({"available"}) /\ last'.id \in ActiveClients) =>
          /\ last'.ret = head - Max(clients[last'.id].cursor, Oldest)
          /\ last'.out = Max(0, Oldest - clients[last'.id].cursor)]_vars

\* the steps of BTELEM_LOG after the claim
LogInside(p) ==
    \/ Log_invalidate(p)
    \/ Log_timestamp(p)
    \/ Log_id(p)
    \/ Log_payload_size(p)
    \/ Log_memcpy(p)
    \/ Log_publish(p)

\* the order of the steps of one BTELEM_LOG call
LogOrder ==
    {<<"idle", "invalidate">>, <<"invalidate", "timestamp">>,
     <<"timestamp", "id">>, <<"id", "payload_size">>,
     <<"payload_size", "memcpy">>, <<"memcpy", "publish">>,
     <<"publish", "idle">>}

\* C13: a thread inside BTELEM_LOG can always take its next step, whatever
\* the other producers and the consumers are doing, and its steps follow
\* one fixed sequence from the claim to the publish, with no way back.
C13_ProducerWaitFree ==
    /\ [](\A p \in Producers : prod[p].pc # "idle" => ENABLED LogInside(p))
    /\ [][\A p \in Producers :
            prod'[p].pc # prod[p].pc => <<prod[p].pc, prod'[p].pc>> \in LogOrder]_vars

\* C13 witness: one thread is about to publish while another is inside
\* BTELEM_LOG on the same slot and a consumer is inside a drain call that
\* reads that slot.
C13_Witness ==
    \E p, q \in Producers :
        /\ p # q
        /\ prod[p].pc = "publish"
        /\ prod[q].pc \notin {"idle", "publish"}
        /\ SlotOf(p) = SlotOf(q)
        /\ \E i \in ActiveClients :
              drn[i].pc # "idle" /\ CursorSlot(i) = SlotOf(p)

\* the steps of a drain call after its entry
DrainInside(i) ==
    \/ btelem_drain_load_seq(i)
    \/ btelem_drain_copy(i)
    \/ \E r \in scn.cbrets : btelem_drain_check_seq(i, r)
    \/ btelem_drain_packed_load_seq(i)
    \/ btelem_drain_packed_copy(i)
    \/ btelem_drain_packed_check_seq(i)

\* C14: a drain call walks up to the head it loaded at entry: it has begun
\* at most min(head snapshot - cursor at entry, capacity) iterations, it can
\* always take its next step, it keeps its head snapshot, and it goes round
\* the loop only with the cursor advanced by one.
C14_DrainBounded ==
    /\ [](\A i \in ClientIds :
            drn[i].pc # "idle" =>
               /\ drn[i].iters <= Min(drn[i].head - drn[i].cursor0, capacity)
               /\ ENABLED DrainInside(i))
    /\ [][\A i \in ClientIds :
            /\ (drn[i].pc # "idle" /\ drn'[i].pc # "idle") =>
                  drn'[i].head = drn[i].head
            /\ (drn[i].pc = "check_seq" /\ drn'[i].pc = "load_seq") =>
                  clients'[i].cursor = clients[i].cursor + 1]_vars

\* C14 witness: a drain is in its second iteration on a ring of two slots
\* while a producer is inside BTELEM_LOG and head has moved past the
\* snapshot.
C14_Witness ==
    \E i \in ActiveClients :
        /\ drn[i].pc # "idle"
        /\ drn[i].iters = 2
        /\ head > drn[i].head
        /\ ~AllIdle

\* C21: a btelem_client_available call leaves head, every slot and every
\* field of every consumer as they were, and with them everything a later
\* drain reads: what has been emitted and counted so far and the position
\* of every drain in progress.
C21_AvailableIsPureRead ==
    [][CallOf({"available"}) =>
          UNCHANGED <<capacity, head, entries, clients, drn, hist>>]_vars

\* C21 witness: the call was made for an open consumer that a drain had
\* already served, with entries pending and some of them overwritten.
C21_Witness ==
    /\ last.op = "available"
    /\ last.id \in ActiveClients
    /\ last.ret > 0
    /\ clients[last.id].cursor < Oldest
    /\ Len(hist[last.id].emitted) > 0

(* ------------------------------------------------------------------ *)
(* Schema registry                                                     *)
(* ------------------------------------------------------------------ *)
\* everything but the registry and the results of the schema calls
ring_side == <<capacity, head, entries, clients, prod, drn, clock, scn,
               logged, hist, last>>

\* a C string of n bytes c
Chars(n, c) == [k \in 1..n |-> c]

\* struct btelem_field_def
FieldDef(name, offset, size, type, count, enum_def, bitfield_def) ==
    [name |-> name, offset |-> offset, size |-> size, type |-> type,
     count |-> count, enum_def |-> enum_def, bitfield_def |-> bitfield_def]

\* struct btelem_schema_entry
SchemaEntry(id, name, description, payload_size, field_count, fields) ==
    [id |-> id, name |-> name, description |-> description,
     payload_size |-> payload_size, field_count |-> field_count,
     fields |-> fields]

\* { "IDLE", "RUN" }
StateEnum == [labels |-> <<Ptr(<<73, 68, 76, 69>>), Ptr(<<82, 85, 78>>)>>,
              label_count |-> 2]

\* { [0] = "A", [2] = "C" }: no label for the value 1
SparseEnum == [labels |-> <<Ptr(<<65>>), NULL, Ptr(<<67>>)>>,
               label_count |-> 3]

\* { BTELEM_BIT("armed", 0, 1), BTELEM_BIT(NULL, 1, 3) }
FlagsBitfield ==
    [bits |-> <<[name |-> Ptr(<<97, 114, 109, 101, 100>>),
                 start |-> 0, width |-> 1],
                [name |-> NULL, start |-> 1, width |-> 3]>>,
     bit_count |-> 2]

ValueField == FieldDef(<<118, 97, 108, 117, 101>>, 0, 4, BTELEM_U32, 1,
                       NULL, NULL)

\* the schema of test_schema_roundtrip: one u32 field named "value"
TestEntry ==
    SchemaEntry(0, <<116, 101, 115, 116>>, Ptr(<<100, 101, 115, 99>>), 4, 1,
                <<ValueField>>)

\* an enum field with labels, a bitfield field, the largest payload
OtherEntry ==
    SchemaEntry(1, <<111, 116, 104, 101, 114>>, NULL, BTELEM_MAX_PAYLOAD, 2,
                <<FieldDef(<<115, 116>>, 0, 1, BTELEM_ENUM, 1,
                           Ptr(StateEnum), NULL),
                  FieldDef(<<102, 108>>, 1, 2, BTELEM_BITFIELD, 1,
                           NULL, Ptr(FlagsBitfield))>>)

\* the largest id; an enum field without a definition, a u32 field that
\* carries one, and an enum whose label table has a gap
GapEntry ==
    SchemaEntry(BTELEM_MAX_SCHEMA_ENTRIES - 1, <<103, 97, 112>>, NULL, 8, 3,
                <<FieldDef(<<97>>, 0, 1, BTELEM_ENUM, 1, NULL, NULL),
                  FieldDef(<<98>>, 1, 4, BTELEM_U32, 1, Ptr(StateEnum), NULL),
                  FieldDef(<<99>>, 5, 1, BTELEM_ENUM, 1,
                           Ptr(SparseEnum), NULL)>>)

\* id 0 again: a name longer than the wire field, more fields than
\* BTELEM_MAX_FIELDS
LongEntry ==
    SchemaEntry(0, Chars(BTELEM_NAME_MAX + 2, 110),
                Ptr(Chars(BTELEM_DESC_MAX, 100)), 4,
                BTELEM_MAX_FIELDS + 1,
                [f \in 1..(BTELEM_MAX_FIELDS + 1) |->
                    FieldDef(<<102, f>>, f, 1, BTELEM_U32, 1, NULL, NULL)])

\* descriptors btelem_register must refuse
BadIdEntry == [TestEntry EXCEPT !.id = BTELEM_MAX_SCHEMA_ENTRIES]
BigPayloadEntry == [TestEntry EXCEPT !.id = 2,
                                     !.payload_size = BTELEM_MAX_PAYLOAD + 1]

\* a test that looks at the id only
RegisterRejects_IdOnly(e) == e.id >= BTELEM_MAX_SCHEMA_ENTRIES

\* the two range checks of btelem_register
RegisterRejects(e) ==
    \/ e.id >= BTELEM_MAX_SCHEMA_ENTRIES
    \/ e.payload_size > BTELEM_MAX_PAYLOAD

\* a count of the calls instead of the highest id
SchemaCountAfter_Calls(id) == schema_count + 1

\* if (entry->id >= ctx->schema_count) ctx->schema_count = entry->id + 1
SchemaCountAfter(id) ==
    IF id >= schema_count THEN id + 1 ELSE schema_count

\* the last btelem_register call: its return value, its argument and what
\* ctx->schema[] held at the index it stored to (NULL if it stored nothing)
RegCalled(ret, entry, prev) ==
    [tick |-> 1 - wire.reg.tick, ret |-> ret, entry |-> entry, prev |-> prev]

\* entry is NULL or points to a descriptor
btelem_register(entry) ==
    /\ wire.regs < MaxRegs
    /\ IF entry = NULL \/ RegisterRejects(Deref(entry))
       THEN /\ wire' = [wire EXCEPT !.regs = @ + 1,
                                    !.reg = RegCalled(-1, entry, NULL)]
            /\ UNCHANGED <<schema, schema_count>>
       ELSE /\ schema' = [schema EXCEPT ![Deref(entry).id] = entry]
            /\ schema_count' = SchemaCountAfter(Deref(entry).id)
            /\ wire' = [wire EXCEPT
                          !.regs = @ + 1,
                          !.reg = RegCalled(0, entry, schema[Deref(entry).id]),
                          !.ser = NULL, !.str = NULL]
    /\ UNCHANGED <<ring_side, endianness, nullread>>

(* ------------------------------------------------------------------ *)
(* Schema serialisation                                                *)
(* ------------------------------------------------------------------ *)
\* Memory is held as the set of <<offset, byte>> of its non-zero bytes. A
\* store is the range of offsets it writes and the non-zero bytes it
\* leaves there. The members of a packed struct do not overlap, so the
\* stores into one record are applied as a set; a memset of the record is
\* a store that leaves no non-zero byte.

\* a memset that is left out
Memset0_Skipped(m, off, n) == m

\* memset(m + off, 0, n)
Memset0(m, off, n) == {x \in m : x[1] < off \/ x[1] >= off + n}

\* memset(off, 0, n) as a store
Zero(off, n) == [lo |-> off, hi |-> off + n - 1, bytes |-> {}]

\* one byte stored at off
PutU8(off, v) ==
    [lo |-> off, hi |-> off,
     bytes |-> IF v % 256 = 0 THEN {} ELSE {<<off, v % 256>>}]

\* a uint16_t stored at off in the byte order of the build
PutU16(off, v) ==
    LET first == IF endianness = 0 THEN v % 256 ELSE (v \div 256) % 256
        second == IF endianness = 0 THEN (v \div 256) % 256 ELSE v % 256
    IN [lo |-> off, hi |-> off + 1,
        bytes |-> (IF first = 0 THEN {} ELSE {<<off, first>>})
                  \cup (IF second = 0 THEN {} ELSE {<<off + 1, second>>})]

\* strncpy(m + off, src, n): the bytes of src up to n of them, then NULs
Strncpy(off, src, n) ==
    [lo |-> off, hi |-> off + n - 1,
     bytes |-> {<<off + k - 1, src[k]>> : k \in 1..Min(Len(src), n)}]

\* memory m after the stores S
Stores(m, S) ==
    {x \in m : \A st \in S : x[1] < st.lo \/ x[1] > st.hi}
        \cup UNION {st.bytes : st \in S}

\* m with every offset moved up by base
Shifted(m, base) == {<<x[1] + base, x[2]>> : x \in m}

\* the indices i < schema_count at which the loops over ctx->schema[] do
\* not continue
RegisteredIds == {i \in SchemaIndex : i < schema_count /\ schema[i] # NULL}

\* the descriptors those loops visit, in the order of the loop
Registered ==
    [k \in 1..Cardinality(RegisteredIds) |->
        Deref(schema[CHOOSE i \in RegisteredIds :
                        Cardinality({j \in RegisteredIds : j < i}) = k - 1])]

\* fc = field_count < BTELEM_MAX_FIELDS ? field_count : BTELEM_MAX_FIELDS
Fc(e) == Min(e.field_count, BTELEM_MAX_FIELDS)

\* e->fields[f]
FieldAt(e, f) == e.fields[f + 1]

\* the field indices of e for which the enum loops do not continue
EnumFields(e) ==
    {f \in 0..(Fc(e) - 1) : /\ FieldAt(e, f).type = BTELEM_ENUM
                            /\ FieldAt(e, f).enum_def # NULL}

\* the field indices of e for which the bitfield loops do not continue
BitfieldFields(e) ==
    {f \in 0..(Fc(e) - 1) : /\ FieldAt(e, f).type = BTELEM_BITFIELD
                            /\ FieldAt(e, f).bitfield_def # NULL}

\* the pairs in P as the nested loops reach them: outer index ascending,
\* inner index ascending
InLoopOrder(P) ==
    [n \in 1..Cardinality(P) |->
        CHOOSE p \in P :
            Cardinality({q \in P : \/ q[1] < p[1]
                                   \/ q[1] = p[1] /\ q[2] < p[2]}) = n - 1]

\* <<e, f>> for every enum record, in the order the loops reach them
EnumRecords ==
    LET regs == Registered
        at == InLoopOrder(UNION {{<<k, f>> : f \in EnumFields(regs[k])} :
                                 k \in 1..Len(regs)})
    IN [n \in 1..Len(at) |-> <<regs[at[n][1]], at[n][2]>>]

BitfieldRecords ==
    LET regs == Registered
        at == InLoopOrder(UNION {{<<k, f>> : f \in BitfieldFields(regs[k])} :
                                 k \in 1..Len(regs)})
    IN [n \in 1..Len(at) |-> <<regs[at[n][1]], at[n][2]>>]

\* the uint16_t counters
EntryCount    == Len(Registered) % UINT16_MOD
EnumCount     == Len(EnumRecords) % UINT16_MOD
BitfieldCount == Len(BitfieldRecords) % UINT16_MOD

\* the size without the two count words
Needed_NoCounts ==
    SCHEMA_HEADER_SIZE + EntryCount * SCHEMA_WIRE_SIZE
        + EnumCount * ENUM_WIRE_SIZE + BitfieldCount * BITFIELD_WIRE_SIZE

\* size_t needed
Needed ==
    SCHEMA_HEADER_SIZE + EntryCount * SCHEMA_WIRE_SIZE
        + 2 + EnumCount * ENUM_WIRE_SIZE
        + 2 + BitfieldCount * BITFIELD_WIRE_SIZE

\* the stores into w->fields[f] of the btelem_schema_wire at offset w
FieldStores(w, e, f) ==
    LET fw == w + 6 + BTELEM_NAME_MAX + BTELEM_DESC_MAX + f * FIELD_WIRE_SIZE
        fd == FieldAt(e, f)
    IN {Strncpy(fw, fd.name, BTELEM_NAME_MAX - 1),
        PutU16(fw + 64, fd.offset), PutU16(fw + 66, fd.size),
        PutU8(fw + 68, fd.type), PutU8(fw + 69, fd.count)}

\* memset(w, 0, sizeof(*w)) and the stores of serialize_one_entry
serialize_one_entry(e) ==
    Stores(Memset0({}, 0, SCHEMA_WIRE_SIZE),
           {PutU16(0, e.id), PutU16(2, e.payload_size),
            PutU16(4, e.field_count),
            Strncpy(6, e.name, BTELEM_NAME_MAX - 1)}
           \cup (IF e.description # NULL
                 THEN {Strncpy(6 + BTELEM_NAME_MAX, Deref(e.description),
                               BTELEM_DESC_MAX - 1)}
                 ELSE {})
           \cup UNION {FieldStores(0, e, f) : f \in 0..(Fc(e) - 1)})

\* the stores btelem_schema_serialize makes in place into w = &out[idx]
SchemaWireStoresInline(w, e) ==
    {PutU16(w, e.id), PutU16(w + 2, e.payload_size),
     PutU16(w + 4, e.field_count),
     Strncpy(w + 6, e.name, BTELEM_NAME_MAX - 1)}
    \cup (IF e.description # NULL
          THEN {Strncpy(w + 6 + BTELEM_NAME_MAX, Deref(e.description),
                        BTELEM_DESC_MAX - 1)}
          ELSE {})
    \cup UNION {FieldStores(w, e, f) : f \in 0..(Fc(e) - 1)}

\* lc = label_count < BTELEM_ENUM_MAX_VALUES ? label_count : ...
Lc(ed) == Min(ed.label_count, BTELEM_ENUM_MAX_VALUES)

\* a label copied also when its pointer is NULL
LabelStore_Unchecked(off, label) ==
    {Strncpy(off, IF label = NULL THEN nullread.bytes ELSE Deref(label),
             BTELEM_ENUM_LABEL_MAX - 1)}

\* if (ed->labels[li]) strncpy(ew->labels[li], ed->labels[li], ...)
LabelStore(off, label) ==
    IF label # NULL
    THEN {Strncpy(off, Deref(label), BTELEM_ENUM_LABEL_MAX - 1)}
    ELSE {}

\* memset(ew, 0, sizeof(*ew)) and the stores of serialize_one_enum
serialize_one_enum(e, field_index) ==
    LET ed == Deref(FieldAt(e, field_index).enum_def)
    IN Stores(Memset0({}, 0, ENUM_WIRE_SIZE),
              {PutU16(0, e.id), PutU16(2, field_index), PutU8(4, Lc(ed))}
              \cup UNION {LabelStore(5 + li * BTELEM_ENUM_LABEL_MAX,
                                     ed.labels[li + 1]) :
                          li \in 0..(Lc(ed) - 1)})

\* the stores btelem_schema_serialize makes in place into the enum record
\* at ew: every label goes through strncpy
EnumWireStoresInline(ew, e, f) ==
    LET ed == Deref(FieldAt(e, f).enum_def)
    IN {PutU16(ew, e.id), PutU16(ew + 2, f), PutU8(ew + 4, Lc(ed))}
       \cup UNION {LabelStore_Unchecked(ew + 5 + li * BTELEM_ENUM_LABEL_MAX,
                                        ed.labels[li + 1]) :
                   li \in 0..(Lc(ed) - 1)}

\* the in-place copy passes a NULL label to strncpy
ReadsNullLabel ==
    LET enums == EnumRecords
    IN \E k \in 1..Len(enums) :
           LET ed == Deref(FieldAt(enums[k][1], enums[k][2]).enum_def)
           IN \E li \in 1..Lc(ed) : ed.labels[li] = NULL

\* bc = bit_count < BTELEM_BITFIELD_MAX_BITS ? bit_count : ...
Bc(bd) == Min(bd.bit_count, BTELEM_BITFIELD_MAX_BITS)

\* serialize_one_bitfield(e, field_index, bw): the memset of the record at
\* bw and its stores
serialize_one_bitfield(bw, e, field_index) ==
    LET bd == Deref(FieldAt(e, field_index).bitfield_def)
        names == bw + 5
        starts == names + BTELEM_BITFIELD_MAX_BITS * BTELEM_BIT_NAME_MAX
        widths == starts + BTELEM_BITFIELD_MAX_BITS
    IN {Zero(bw, BITFIELD_WIRE_SIZE),
        PutU16(bw, e.id), PutU16(bw + 2, field_index), PutU8(bw + 4, Bc(bd))}
       \cup UNION {
           (IF bd.bits[bi + 1].name # NULL
            THEN {Strncpy(names + bi * BTELEM_BIT_NAME_MAX,
                          Deref(bd.bits[bi + 1].name),
                          BTELEM_BIT_NAME_MAX - 1)}
            ELSE {})
           \cup {PutU8(starts + bi, bd.bits[bi + 1].start),
                 PutU8(widths + bi, bd.bits[bi + 1].width)} :
           bi \in 0..(Bc(bd) - 1)}

\* a buffer that is not clean: 0xFF at its start, in the last byte of the
\* first record's name, in a field slot few descriptors use, around the
\* end of a blob of one record and beyond every blob of the model
DirtyBuf == {<<0, 255>>, <<72, 255>>, <<1000, 255>>, <<1324, 255>>,
             <<1325, 255>>, <<20000, 255>>}

Bufs == {NULL, Ptr({}), Ptr(DirtyBuf)}

\* the first n bytes of memory m
FirstBytes(m, n) == {x \in m : x[1] < n}

\* btelem_schema_serialize(ctx, buf, buf_size): its return value, the
\* buffer afterwards, and whether the call ended in a fault instead
SchemaSerialize(buf, buf_size) ==
    LET needed == Needed
        regs == Registered
        enums == EnumRecords
        bitfields == BitfieldRecords
        out == SCHEMA_HEADER_SIZE
        p0 == SCHEMA_HEADER_SIZE + (Len(regs) % UINT16_MOD) * SCHEMA_WIRE_SIZE
        p1 == p0 + 2
        p2 == p1 + Len(enums) * ENUM_WIRE_SIZE
        p3 == p2 + 2
        m == Stores(Memset0(Deref(buf), 0, needed),
                     {PutU8(0, endianness),
                      PutU16(1, Len(regs) % UINT16_MOD),
                      PutU16(p0, Len(enums) % UINT16_MOD),
                      PutU16(p2, Len(bitfields) % UINT16_MOD)}
                     \cup UNION {SchemaWireStoresInline(
                                     out + (idx - 1) * SCHEMA_WIRE_SIZE,
                                     regs[idx]) :
                                 idx \in 1..Len(regs)}
                     \cup UNION {EnumWireStoresInline(
                                     p1 + (k - 1) * ENUM_WIRE_SIZE,
                                     enums[k][1], enums[k][2]) :
                                 k \in 1..Len(enums)}
                     \cup UNION {serialize_one_bitfield(
                                     p3 + (k - 1) * BITFIELD_WIRE_SIZE,
                                     bitfields[k][1], bitfields[k][2]) :
                                 k \in 1..Len(bitfields)})
    IN IF buf = NULL THEN [ret |-> needed, buf |-> buf, fault |-> FALSE]
       ELSE IF buf_size < needed
       THEN [ret |-> -1, buf |-> buf, fault |-> FALSE]
       ELSE IF nullread.fault /\ ReadsNullLabel
       THEN [ret |-> 0, buf |-> buf, fault |-> TRUE]
       ELSE [ret |-> needed, buf |-> Ptr(m), fault |-> FALSE]

\* a chunk handed to the emit callback: its length and its bytes
Chunk(size, bytes) == [size |-> size, bytes |-> bytes]

\* the chunks btelem_schema_stream builds, in the order it builds them
StreamChunks ==
    LET regs == Registered
        enums == EnumRecords
        bitfields == BitfieldRecords
    IN <<Chunk(SCHEMA_HEADER_SIZE,
               Stores(Memset0({}, 0, SCHEMA_HEADER_SIZE),
                      {PutU8(0, endianness),
                       PutU16(1, Len(regs) % UINT16_MOD)}))>>
       \o [k \in 1..Len(regs) |->
              Chunk(SCHEMA_WIRE_SIZE, serialize_one_entry(regs[k]))]
       \o <<Chunk(2, Stores({}, {PutU16(0, Len(enums) % UINT16_MOD)}))>>
       \o [k \in 1..Len(enums) |->
              Chunk(ENUM_WIRE_SIZE,
                    serialize_one_enum(enums[k][1], enums[k][2]))]
       \o <<Chunk(2, Stores({}, {PutU16(0, Len(bitfields) % UINT16_MOD)}))>>
       \o [k \in 1..Len(bitfields) |->
              Chunk(BITFIELD_WIRE_SIZE,
                    Stores({}, serialize_one_bitfield(0, bitfields[k][1],
                                                      bitfields[k][2])))]

\* a stream that goes on calling emit after it returned non-zero
Delivered_Continues(chunks, abort_at) == chunks

\* the chunks emit is called for when its abort_at-th call returns
\* non-zero (abort_at = 0: it never does)
Delivered(chunks, abort_at) ==
    IF abort_at \in 1..Len(chunks) THEN SubSeq(chunks, 1, abort_at)
    ELSE chunks

\* total += (int)sizeof(...) after every call of emit that returned 0
Total(chunks) ==
    LET total[k \in 0..Len(chunks)] ==
            IF k = 0 THEN 0 ELSE total[k - 1] + chunks[k].size
    IN total[Len(chunks)]

\* btelem_schema_stream(ctx, emit, user) over the chunks it builds: its
\* return value and the chunks emit was called with
SchemaStreamOf(chunks, abort_at) ==
    [ret |-> IF abort_at \in 1..Len(chunks) THEN -1 ELSE Total(chunks),
     chunks |-> Delivered(chunks, abort_at)]

SchemaStream(abort_at) == SchemaStreamOf(StreamChunks, abort_at)

\* the bytes of the chunks one after the other
Concat(chunks) ==
    Chunk(Total(chunks),
          UNION {Shifted(chunks[k].bytes, Total(SubSeq(chunks, 1, k - 1))) :
                 k \in 1..Len(chunks)})

\* a serialize call has ended in a fault: the process is gone
Faulted == wire.ser # NULL /\ Deref(wire.ser).fault

SerTick == IF wire.ser = NULL THEN 0 ELSE Deref(wire.ser).tick
StrTick == IF wire.str = NULL THEN 0 ELSE Deref(wire.str).tick

btelem_schema_serialize(buf, buf_size) ==
    /\ ~Faulted
    /\ LET r == SchemaSerialize(buf, buf_size)
       IN wire' = [wire EXCEPT
                      !.ser = Ptr([tick |-> 1 - SerTick, ret |-> r.ret,
                                   buf0 |-> buf, buf_size |-> buf_size,
                                   buf |-> r.buf, fault |-> r.fault]),
                      !.str = NULL]
    /\ UNCHANGED <<ring_side, schema, schema_count, endianness, nullread>>

btelem_schema_stream(chunks, abort_at) ==
    /\ ~Faulted
    /\ LET r == SchemaStreamOf(chunks, abort_at)
       IN wire' = [wire EXCEPT
                      !.str = Ptr([tick |-> 1 - StrTick, ret |-> r.ret,
                                   abort_at |-> abort_at,
                                   chunks |-> r.chunks]),
                      !.ser = NULL]
    /\ UNCHANGED <<ring_side, schema, schema_count, endianness, nullread>>

(* ------------------------------------------------------------------ *)
(* Specification of the registry and the schema calls                  *)
(* ------------------------------------------------------------------ *)
\* a scenario that registers the descriptors pointed to by descs
WithDescriptors(s, descs) == [s EXCEPT !.descs = descs]

Register ==
    \E entry \in scn.descs :
        ~Faulted /\ btelem_register(entry) /\ UNCHANGED server_side

\* size query; clean buffer of the exact size; dirty buffer with room to
\* spare; dirty buffer one byte short; no room at all
SerializeArgs ==
    {<<NULL, 0>>, <<Ptr({}), Needed>>, <<Ptr(DirtyBuf), Needed + 8>>,
     <<Ptr(DirtyBuf), Needed - 1>>, <<Ptr({}), 0>>}

Serialize ==
    \E a \in SerializeArgs :
        btelem_schema_serialize(a[1], a[2]) /\ UNCHANGED server_side

Stream ==
    LET chunks == StreamChunks
    IN \E abort_at \in 0..Len(chunks) :
          btelem_schema_stream(chunks, abort_at) /\ UNCHANGED server_side

NextSchema == Register \/ Serialize \/ Stream

\* what a read through a NULL string pointer does: the process faults, or
\* the bytes at address 0 are read (an empty string, or one byte)
NullReads == {[fault |-> TRUE, bytes |-> <<>>],
              [fault |-> FALSE, bytes |-> <<>>],
              [fault |-> FALSE, bytes |-> <<170>>]}

NoRing == Scenario(FALSE, {}, {0}, 0, 0, FALSE, {}, {{}}, {0}, {})

InitSchema ==
    /\ btelem_init(1)
    /\ prod = [p \in Producers |-> IdleProducer]
    /\ drn = [i \in ClientIds |-> IdleDrain]
    /\ clock = 1
    /\ logged = <<>>
    /\ hist = [i \in ClientIds |-> NoHist]
    /\ last = NoLast
    /\ wire = NoWire
    /\ ServerOff
    /\ \/ /\ scn = WithDescriptors(NoRing, {Ptr(TestEntry), Ptr(OtherEntry),
                                            Ptr(GapEntry)})
          /\ endianness = 0
          /\ nullread \in NullReads
       \/ /\ scn = WithDescriptors(NoRing, {NULL, Ptr(TestEntry),
                                            Ptr(LongEntry), Ptr(BadIdEntry),
                                            Ptr(BigPayloadEntry)})
          /\ endianness = 1
          /\ nullread = [fault |-> TRUE, bytes |-> <<>>]

SpecSchema == InitSchema /\ [][NextSchema]_vars

(* ------------------------------------------------------------------ *)
(* Properties of the schema calls                                      *)
(* ------------------------------------------------------------------ *)
\* the last btelem_schema_serialize call was given a buffer with room
WroteBlob ==
    /\ wire.ser # NULL
    /\ Deref(wire.ser).buf0 # NULL
    /\ Deref(wire.ser).buf_size >= Needed

\* the bytes that call wrote
Blob == FirstBytes(Deref(Deref(wire.ser).buf), Deref(wire.ser).ret)

\* the last btelem_schema_stream call ran to its end
Streamed == wire.str # NULL /\ Deref(wire.str).abort_at = 0

\* the order of the chunks: header, one per schema entry, the enum count,
\* one per enum, the bitfield count, one per bitfield
ChunkSizes ==
    <<SCHEMA_HEADER_SIZE>>
    \o [k \in 1..Cardinality(RegisteredIds) |-> SCHEMA_WIRE_SIZE]
    \o <<2>> \o [k \in 1..Len(EnumRecords) |-> ENUM_WIRE_SIZE]
    \o <<2>> \o [k \in 1..Len(BitfieldRecords) |-> BITFIELD_WIRE_SIZE]

\* C22: whenever btelem_schema_serialize is given a buffer with room it
\* returns, and its return value and the bytes it wrote are the total and
\* the concatenation of the chunks of btelem_schema_stream; a stream that
\* ran to its end returned what the size query returns and passed chunks
\* of the sizes header, entries, enum count, enums, bitfield count,
\* bitfields.
C22_StreamEqualsSerialize ==
    /\ WroteBlob =>
          /\ ~Deref(wire.ser).fault
          /\ Deref(wire.ser).ret = SchemaStream(0).ret
          /\ Blob = Concat(SchemaStream(0).chunks).bytes
    /\ Streamed =>
          /\ Deref(wire.str).ret = SchemaSerialize(NULL, 0).ret
          /\ [k \in 1..Len(Deref(wire.str).chunks) |->
                 Deref(wire.str).chunks[k].size] = ChunkSizes

\* E: the registered schema ids
IdsHeld == {i \in SchemaIndex : schema[i] # NULL}

\* En and Bn: the fields of registered descriptors, among those the wire
\* record has room for, that are enums with a definition, or bitfields
\* with one
FieldsHeld(type, def) ==
    {<<i, f>> \in IdsHeld \X (0..(BTELEM_MAX_FIELDS - 1)) :
        /\ f < Deref(schema[i]).field_count
        /\ Deref(schema[i]).fields[f + 1].type = type
        /\ Deref(schema[i]).fields[f + 1][def] # NULL}

BlobSize ==
    3 + 1318 * Cardinality(IdsHeld)
      + 2 + 2053 * Cardinality(FieldsHeld(BTELEM_ENUM, "enum_def"))
      + 2 + 549 * Cardinality(FieldsHeld(BTELEM_BITFIELD, "bitfield_def"))

IsPrefix(a, b) == a.size <= b.size /\ a.bytes = FirstBytes(b.bytes, a.size)

\* the last btelem_schema_stream call had its callback return non-zero
Aborted == wire.str # NULL /\ Deref(wire.str).abort_at > 0

\* C24: when the callback returns non-zero on its n-th call
\* btelem_schema_stream returns -1 and has called it n times, no more, and
\* the chunks it passed, up to any of them, are a prefix of the bytes of the
\* complete stream and of the blob btelem_schema_serialize writes.
C24_StreamAbort ==
    Aborted =>
       LET call == Deref(wire.str)
       IN /\ call.ret = -1
          /\ Len(call.chunks) = call.abort_at
          /\ \A k \in 0..Len(call.chunks) :
                /\ IsPrefix(Concat(SubSeq(call.chunks, 1, k)),
                            Concat(SchemaStream(0).chunks))
                /\ ~ReadsNullLabel =>
                      IsPrefix(Concat(SubSeq(call.chunks, 1, k)),
                               Chunk(Needed,
                                     Deref(SchemaSerialize(Ptr({}), Needed).buf)))

\* C24 witness: the callback stopped the stream at its third chunk, with
\* schema, enum and bitfield records still to come.
C24_Witness ==
    /\ Aborted
    /\ Deref(wire.str).abort_at = 3
    /\ Len(EnumRecords) > 0
    /\ Len(BitfieldRecords) > 0
    /\ Len(StreamChunks) > 6

\* a step is a btelem_schema_serialize call, a btelem_schema_stream call
SerializeCall == wire'.ser # NULL /\ wire'.ser # wire.ser
StreamCall == wire'.str # NULL /\ wire'.str # wire.str

\* C25: with the registry unchanged since the previous call, a
\* btelem_schema_serialize call returns the same value and writes the same
\* bytes as the previous one, whatever the two buffers held before, and a
\* btelem_schema_stream call passes the same chunks and returns the same
\* value as the previous one; neither call changes the context.
C25_SchemaRepeatable ==
    [][/\ (SerializeCall /\ WroteBlob /\ WroteBlob') =>
             /\ Deref(wire'.ser).ret = Deref(wire.ser).ret
             /\ Blob' = Blob
       /\ (SerializeCall /\ wire.ser # NULL
             /\ Deref(wire.ser).buf0 = NULL /\ Deref(wire'.ser).buf0 = NULL) =>
             Deref(wire'.ser).ret = Deref(wire.ser).ret
       /\ (StreamCall /\ Streamed /\ Streamed') =>
             /\ Deref(wire'.str).ret = Deref(wire.str).ret
             /\ Deref(wire'.str).chunks = Deref(wire.str).chunks
       /\ (SerializeCall \/ StreamCall) =>
             UNCHANGED <<schema, schema_count, endianness, ring_side>>]_vars

\* C25 witness: the second of two btelem_schema_serialize calls in a row
\* was given a dirty buffer and wrote a blob with enum records.
C25_Witness ==
    /\ WroteBlob
    /\ Deref(wire.ser).tick = 0
    /\ Deref(wire.ser).buf0 = Ptr(DirtyBuf)
    /\ ~Deref(wire.ser).fault
    /\ Len(EnumRecords) > 0

\* a step is a btelem_register call
RegisterCall == wire'.reg.tick # wire.reg.tick

\* C26: btelem_register returns -1 and leaves the registry and
\* schema_count as they were when the descriptor's id is
\* >= BTELEM_MAX_SCHEMA_ENTRIES or its payload_size > BTELEM_MAX_PAYLOAD;
\* every descriptor the registry holds has an id below
\* BTELEM_MAX_SCHEMA_ENTRIES, a payload_size of at most BTELEM_MAX_PAYLOAD
\* and sits at the index equal to its id.
C26_RegisterRejects ==
    /\ [](\A i \in SchemaIndex :
            schema[i] # NULL =>
               /\ Deref(schema[i]).id = i
               /\ Deref(schema[i]).id < BTELEM_MAX_SCHEMA_ENTRIES
               /\ Deref(schema[i]).payload_size <= BTELEM_MAX_PAYLOAD)
    /\ [][(/\ RegisterCall
           /\ wire'.reg.entry # NULL
           /\ \/ Deref(wire'.reg.entry).id >= BTELEM_MAX_SCHEMA_ENTRIES
              \/ Deref(wire'.reg.entry).payload_size > BTELEM_MAX_PAYLOAD) =>
              /\ wire'.reg.ret = -1
              /\ UNCHANGED <<schema, schema_count>>]_vars

\* C26 witness: a descriptor with a payload_size of BTELEM_MAX_PAYLOAD + 1
\* and an id in range was refused by a registry that holds a descriptor.
C26_Witness ==
    /\ wire.reg.ret = -1
    /\ wire.reg.entry = Ptr(BigPayloadEntry)
    /\ IdsHeld # {}

\* the uint16_t at off of memory m, in the byte order of the build
ByteAt(m, off) == IF \E x \in m : x[1] = off
                  THEN (CHOOSE x \in m : x[1] = off)[2] ELSE 0

GetU16(m, off) ==
    IF endianness = 0 THEN ByteAt(m, off) + 256 * ByteAt(m, off + 1)
    ELSE 256 * ByteAt(m, off) + ByteAt(m, off + 1)

\* the k-th smallest member of a set of numbers
Kth(S, k) == CHOOSE i \in S : Cardinality({j \in S : j < i}) = k - 1

\* C27: schema_count is the largest registered id plus one (0 for an empty
\* registry); a successful btelem_register call returns 0 and leaves its
\* descriptor at the index of its id, whatever was there before; a blob
\* written by btelem_schema_serialize has entry_count equal to the number
\* of registered ids and, for the k-th smallest registered id, that id in
\* the k-th schema record and the name of its descriptor after it.
C27_RegistryCount ==
    /\ [](/\ IdsHeld = {} => schema_count = 0
          /\ IdsHeld # {} =>
                schema_count = 1 + CHOOSE i \in IdsHeld :
                                       \A j \in IdsHeld : j <= i
          /\ (WroteBlob /\ ~Deref(wire.ser).fault) =>
                /\ GetU16(Blob, 1) = Cardinality(IdsHeld)
                /\ Deref(wire.ser).ret >=
                      SCHEMA_HEADER_SIZE
                          + Cardinality(IdsHeld) * SCHEMA_WIRE_SIZE
                /\ \A k \in 1..Cardinality(IdsHeld) :
                      LET w == SCHEMA_HEADER_SIZE + (k - 1) * SCHEMA_WIRE_SIZE
                          e == Deref(schema[Kth(IdsHeld, k)])
                      IN /\ GetU16(Blob, w) = Kth(IdsHeld, k)
                         /\ \A c \in 1..Min(Len(e.name), BTELEM_NAME_MAX - 1) :
                               ByteAt(Blob, w + 6 + c - 1) = e.name[c])
    /\ [][(/\ RegisterCall
           /\ wire'.reg.entry # NULL
           /\ Deref(wire'.reg.entry).id < BTELEM_MAX_SCHEMA_ENTRIES
           /\ Deref(wire'.reg.entry).payload_size <= BTELEM_MAX_PAYLOAD) =>
              /\ wire'.reg.ret = 0
              /\ schema' = [schema EXCEPT ![Deref(wire'.reg.entry).id] =
                                             wire'.reg.entry]]_vars

\* C27 witness: a registration replaced a different descriptor with the
\* same id, and a blob was written afterwards.
C27_Witness ==
    /\ wire.reg.ret = 0
    /\ wire.reg.prev # NULL
    /\ wire.reg.prev # wire.reg.entry
    /\ WroteBlob
    /\ ~Deref(wire.ser).fault

(* ------------------------------------------------------------------ *)
(* btelem_init as a call                                               *)
(* ------------------------------------------------------------------ *)
\* the context and the ring memory the program owns
TheCtx  == Ptr("ctx")
TheRing == Ptr("ring")

\* the last btelem_init call
InitCalled(ret, ctx, ring_buf, entry_count) ==
    Ptr([tick |-> IF wire.init = NULL THEN 1 ELSE 1 - Deref(wire.init).tick,
         ret |-> ret, ctx |-> ctx, ring_buf |-> ring_buf,
         entry_count |-> entry_count])

\* int btelem_init(struct btelem_ctx *ctx, void *ring_buf,
\*                 uint32_t entry_count), called by the thread that owns the
\* context while no other thread is inside a call on it.  The failing call
\* returns before the first store; the succeeding call clears the context
\* (consumer slots, registry, schema_count) and the ring (head and every
\* entry), then sets capacity and mask.  endianness is the byte order of
\* the build and is assigned the value it has.
btelem_init_call(ctx, ring_buf, entry_count) ==
    /\ AllIdle
    /\ NoDrain
    /\ wire.inits < MaxInits
    /\ IF ctx = NULL \/ ring_buf = NULL \/ ~is_power_of_2(entry_count)
       THEN /\ wire' = [wire EXCEPT
                          !.inits = @ + 1,
                          !.init = InitCalled(-1, ctx, ring_buf, entry_count)]
            /\ UNCHANGED <<capacity, head, entries, clients, schema,
                           schema_count, logged, hist>>
       ELSE /\ clients' = [i \in ClientIds |-> ZeroClient]
            /\ schema' = NoSchema
            /\ schema_count' = 0
            /\ head' = 0
            /\ entries' = [i \in 0..(entry_count - 1) |-> ZeroEntry]
            /\ capacity' = entry_count
            /\ logged' = <<>>
            /\ hist' = [i \in ClientIds |-> NoHist]
            /\ wire' = [NoWire EXCEPT
                          !.inits = wire.inits + 1,
                          !.init = InitCalled(0, ctx, ring_buf, entry_count)]
    /\ UNCHANGED <<prod, drn, clock, scn, last, endianness, nullread>>

\* arguments of the btelem_init calls: a NULL context, NULL ring memory, an
\* entry_count of 0, one that is not a power of two, and two that are
InitArgs == {<<NULL, TheRing, MaxCapacity>>,
             <<TheCtx, NULL, MaxCapacity>>,
             <<TheCtx, TheRing, 0>>,
             <<TheCtx, TheRing, MaxCapacity + 1>>,
             <<TheCtx, TheRing, 1>>,
             <<TheCtx, TheRing, MaxCapacity>>}

InitCall ==
    \E a \in InitArgs :
        btelem_init_call(a[1], a[2], a[3]) /\ UNCHANGED server_side

\* the other calls need a context that btelem_init has set up
Ready == wire.ready

\* what the context and the ring memory hold before the first btelem_init
\* call: whatever the memory held; here a capacity that is no power of two,
\* a head past it, slots with a non-zero seq, consumer slots in use and a
\* registry with a stale pointer
StaleEntry == [ZeroEntry EXCEPT !.seq = 7, !.timestamp = 9, !.id = 1]

StaleClient == [ZeroClient EXCEPT !.active = TRUE, !.cursor = 5,
                                  !.dropped = 3]

BeforeInit ==
    /\ capacity = MaxCapacity + 1
    /\ head = 7
    /\ entries = [i \in 0..MaxCapacity |-> StaleEntry]
    /\ clients = [i \in ClientIds |-> StaleClient]
    /\ schema = [NoSchema EXCEPT ![5] = Ptr(TestEntry)]
    /\ schema_count = 9
    /\ wire = [NoWire EXCEPT !.ready = FALSE]

\* one producer logging, consumers opening, descriptors registering, and
\* btelem_init called before and between them
InitInit ==
    /\ \/ BeforeInit
       \/ (\E n \in Capacities : btelem_init(n)) /\ wire = NoWire
    /\ prod = [p \in Producers |-> IdleProducer]
    /\ drn = [i \in ClientIds |-> IdleDrain]
    /\ clock = 1
    /\ logged = <<>>
    /\ hist = [i \in ClientIds |-> NoHist]
    /\ last = NoLast
    /\ endianness = 0
    /\ nullread = [fault |-> TRUE, bytes |-> <<>>]
    /\ ServerOff
    /\ scn = WithDescriptors(
                Scenario(FALSE, {1}, {0}, MaxLogs - 1, MaxOpen, TRUE, {},
                         {{}}, {0}, {}),
                {Ptr(TestEntry), Ptr(GapEntry)})

NextInit ==
    \/ InitCall
    \/ Ready /\ \E p \in Producers : Log(p)
    \/ Ready /\ Open
    \/ Ready /\ Register

SpecInit == InitInit /\ [][NextInit]_vars

\* a step is a btelem_init call
InitStep == wire'.inits # wire.inits

\* C28: a btelem_init call with a NULL ctx, a NULL ring_buf, or an
\* entry_count that is 0 or not a power of two returns -1 and leaves the
\* context and the ring as they were; any other call returns 0 and leaves
\* capacity = entry_count, a power of two, mask = capacity - 1, head = 0,
\* seq = 0 in every slot, no consumer slot active, an empty registry and
\* schema_count = 0.
C28_InitContract ==
    [][InitStep =>
         LET c == Deref(wire'.init) IN
         IF \/ c.ctx = NULL
            \/ c.ring_buf = NULL
            \/ ~ \E k \in 0..30 : c.entry_count = 2^k
         THEN /\ c.ret = -1
              /\ UNCHANGED <<capacity, head, entries, clients, schema,
                             schema_count, endianness>>
         ELSE /\ c.ret = 0
              /\ capacity' = c.entry_count
              /\ \E k \in 0..30 : capacity' = 2^k
              /\ mask' = capacity' - 1
              /\ head' = 0
              /\ DOMAIN entries' = 0..(capacity' - 1)
              /\ \A i \in DOMAIN entries' : entries'[i].seq = 0
              /\ \A i \in ClientIds : ~clients'[i].active
              /\ \A i \in SchemaIndex : schema'[i] = NULL
              /\ schema_count' = 0]_vars

\* C28 witness: a used context (entries logged, a consumer open, a
\* descriptor registered) was refused a capacity that is not a power of
\* two.
C28_Witness ==
    /\ wire.init # NULL
    /\ Deref(wire.init).ret = -1
    /\ Deref(wire.init).ctx # NULL
    /\ Deref(wire.init).ring_buf # NULL
    /\ Deref(wire.init).entry_count = MaxCapacity + 1
    /\ wire.ready
    /\ head > 0
    /\ \E i \in ClientIds : clients[i].active
    /\ IdsHeld # {}

(* ------------------------------------------------------------------ *)
(* The TCP server: btelem_serve.c                                      *)
(* ------------------------------------------------------------------ *)
\* for (int i = 0; i < 100; i++) in btelem_server_stop
StopPolls == 100

\* a run of bytes written to a socket by one send_all call: what they are,
\* how many the call was given, how many were written, and the bytes (the
\* number itself for a length word)
Item(what, size, sent, data) ==
    [what |-> what, size |-> size, sent |-> sent, data |-> data]

\* write() takes the bytes: the peer is reading
CanWrite(fd) ==
    net.sock[fd].state = "open" /\ net.sock[fd].peer = "reading"

\* write() fails with an error other than EAGAIN: the socket was shut down,
\* or the peer closed or reset the connection
WriteFails(fd) ==
    net.sock[fd].state = "shutdown" \/ net.sock[fd].peer = "gone"

\* how much of `size` bytes a failing send_all has written: nothing, or all
\* but the last byte
PartialSizes(size) == {0, size - 1}

\* the sockets after send_all wrote `sent` of the `size` bytes
Written(fd, what, size, sent, data) ==
    [net EXCEPT !.sock[fd].out = Append(@, Item(what, size, sent, data))]

\* variant: a client thread that never sends the schema
SchemaPhase_Never(schema_size) == schema_size < 0

\* if (schema_size > 0)
SchemaPhase(schema_size) == schema_size > 0

\* the thread of slot s moves to pc
At(s, pc) == [thr EXCEPT !.client[s].pc = pc, !.client[s].timeouts = 0]

\* int schema_size = btelem_schema_serialize(ctx, NULL, 0)
ct_start(s) ==
    /\ thr.client[s].pc = "start"
    /\ LET schema_size == SchemaSerialize(NULL, 0).ret
       IN thr' = [thr EXCEPT
                    !.client[s].schema_size = schema_size,
                    !.client[s].pc = IF SchemaPhase(schema_size)
                                     THEN "send_slen" ELSE "loop"]
    /\ UNCHANGED <<ring_side, outside, srv, net>>

\* setsockopt(conn->fd, SOL_SOCKET, SO_SNDTIMEO, 1 s) has been called: the
\* thread of slot s is past the schema and in its drain loop
SendTimeoutSet(s) == thr.client[s].pc \in {"send_plen", "send_pkt"}

\* write() returns -1 with EAGAIN: the send timeout is set, the socket is
\* open and the peer has not read for the length of the timeout
WriteTimesOut(s) ==
    /\ SendTimeoutSet(s)
    /\ net.sock[srv.clients[s].fd].state = "open"
    /\ net.sock[srv.clients[s].fd].peer = "stalled"

\* a send_all that gives up at the first timeout
AfterTimeout_GiveUp(s, failed) == failed

\* if (e == EAGAIN || e == EWOULDBLOCK) { fprintf(...); continue; }
AfterTimeout(s, failed) == [thr EXCEPT !.client[s].timeouts = @ + 1]

\* send_all(fd, data, len) by the thread of slot s: it returns 0 and the
\* thread goes on at `next`, or it returns -1 and the thread goes to
\* `failed`, or a write() timed out and it tries again; without the send
\* timeout, write() blocks while the peer does not read
send_all(s, what, size, data, next, failed) ==
    LET fd == srv.clients[s].fd IN
    \/ /\ CanWrite(fd)
       /\ net' = Written(fd, what, size, size, data)
       /\ thr' = next
    \/ /\ WriteFails(fd)
       /\ \E sent \in PartialSizes(size) :
             net' = Written(fd, what, size, sent, data)
       /\ thr' = failed
    \/ /\ WriteTimesOut(s)
       /\ thr.client[s].timeouts < MaxTimeouts
       /\ net' = net
       /\ thr' = AfterTimeout(s, failed)

\* send_all(conn->fd, &slen, 4); on failure goto done
ct_send_slen(s) ==
    /\ thr.client[s].pc = "send_slen"
    /\ send_all(s, "u32", 4, thr.client[s].schema_size,
                [thr EXCEPT !.client[s].pc = "stream",
                            !.client[s].chunk = 1],
                At(s, "done"))
    /\ UNCHANGED <<ring_side, outside, srv>>

\* btelem_schema_stream(ctx, schema_send_chunk, &sc): the next chunk goes
\* to send_all; a failure sets sc.error, ends the stream, and the thread
\* goes to done; after the last chunk the thread enters the drain loop
ct_stream(s) ==
    /\ thr.client[s].pc = "stream"
    /\ LET chunks == StreamChunks
           k == thr.client[s].chunk
       IN send_all(s, "schema", chunks[k].size, chunks[k].bytes,
                   IF k < Len(chunks)
                   THEN [thr EXCEPT !.client[s].chunk = k + 1]
                   ELSE At(s, "loop"),
                   [thr EXCEPT !.client[s].error = 1,
                               !.client[s].pc = "done"])
    /\ UNCHANGED <<ring_side, outside, srv>>

\* while (srv->running)
ct_loop(s) ==
    /\ thr.client[s].pc = "loop"
    /\ thr' = At(s, IF srv.running THEN "call" ELSE "done")
    /\ UNCHANGED <<ring_side, outside, srv, net>>

\* the thread of slot s after a step of its btelem_drain_packed call: still
\* inside, or back with n; n > 0 is a packet to send and is recorded as a
\* return of the call on this connection, otherwise usleep and loop
AfterDrainStep(s) ==
    LET cid == srv.clients[s].btelem_client_id
        n == hist'[cid].lastcall.ret
    IN IF drn'[cid].pc # "idle"
       THEN At(s, "in_call")
       ELSE [thr EXCEPT !.client[s].n = n,
                        !.client[s].pc = IF n > 0 THEN "send_plen"
                                         ELSE "loop"]

\* what the connection of slot s has on record after that step
DrainRecorded(s) ==
    LET cid == srv.clients[s].btelem_client_id
        fd == srv.clients[s].fd
        call == hist'[cid].lastcall
    IN IF drn'[cid].pc = "idle" /\ call.ret > 0
       THEN [net EXCEPT !.sock[fd].returned =
                           Append(@, [n |-> call.ret, packet |-> call.packet])]
       ELSE net

\* n = btelem_drain_packed(ctx, conn->btelem_client_id, pkt_buf,
\*                         sizeof(pkt_buf)): entry
ct_call(s) ==
    /\ thr.client[s].pc = "call"
    /\ btelem_drain_packed_begin(srv.clients[s].btelem_client_id,
                                 BTELEM_SERVE_PKT_BUF)
    /\ thr' = AfterDrainStep(s)
    /\ net' = DrainRecorded(s)
    /\ UNCHANGED srv

\* the walk of that call
ct_walk(s) ==
    /\ thr.client[s].pc = "in_call"
    /\ LET cid == srv.clients[s].btelem_client_id
       IN \/ btelem_drain_packed_load_seq(cid)
          \/ btelem_drain_packed_copy(cid)
          \/ btelem_drain_packed_check_seq(cid)
    /\ thr' = AfterDrainStep(s)
    /\ net' = DrainRecorded(s)
    /\ UNCHANGED srv

\* send_all(conn->fd, &plen, 4), plen = (uint32_t)n
ct_send_plen(s) ==
    /\ thr.client[s].pc = "send_plen"
    /\ send_all(s, "u32", 4, thr.client[s].n,
                At(s, "send_pkt"), At(s, "done"))
    /\ UNCHANGED <<ring_side, outside, srv>>

\* send_all(conn->fd, pkt_buf, plen): the first plen bytes of pkt_buf, which
\* hold the packet the call wrote
ct_send_pkt(s) ==
    /\ thr.client[s].pc = "send_pkt"
    /\ send_all(s, "packet", thr.client[s].n,
                hist[srv.clients[s].btelem_client_id].lastcall.packet,
                At(s, "loop"), At(s, "done"))
    /\ UNCHANGED <<ring_side, outside, srv>>

\* done: close(conn->fd)
ct_close(s) ==
    /\ thr.client[s].pc = "done"
    /\ net' = [net EXCEPT !.sock[srv.clients[s].fd].state = "closed"]
    /\ thr' = At(s, "closed")
    /\ UNCHANGED <<ring_side, outside, srv>>

\* conn->fd = -1; btelem_client_close(ctx, conn->btelem_client_id)
ct_client_close(s) ==
    /\ thr.client[s].pc = "closed"
    /\ btelem_client_close(srv.clients[s].btelem_client_id)
    /\ srv' = [srv EXCEPT !.clients[s].fd = -1]
    /\ thr' = At(s, "exit")
    /\ UNCHANGED net

\* lock; conn->active = 0; unlock; return NULL
ct_exit(s) ==
    /\ thr.client[s].pc = "exit"
    /\ srv' = [srv EXCEPT !.clients[s].active = FALSE]
    /\ thr' = [thr EXCEPT !.client[s] = NoThread]
    /\ UNCHANGED <<ring_side, outside, net>>

client_thread(s) ==
    \/ ct_start(s)
    \/ ct_send_slen(s)
    \/ ct_stream(s)
    \/ ct_loop(s)
    \/ ct_call(s)
    \/ ct_walk(s)
    \/ ct_send_plen(s)
    \/ ct_send_pkt(s)
    \/ ct_close(s)
    \/ ct_client_close(s)
    \/ ct_exit(s)

\* accept_thread: while (srv->running)
at_loop ==
    /\ thr.accept.pc = "loop"
    /\ thr' = [thr EXCEPT !.accept.pc = IF srv.running THEN "accept"
                                        ELSE "done"]
    /\ UNCHANGED <<ring_side, outside, srv, net>>

\* fd = accept(srv->listen_fd, NULL, NULL): a peer connects and accept
\* returns a new descriptor, or the listening socket was shut down and
\* accept returns -1, which ends the thread
at_accept ==
    /\ thr.accept.pc = "accept"
    /\ \/ /\ net.listen = "listening"
          /\ net.accepted < scn.maxopen
          /\ LET fd == ListenFd + net.accepted + 1
             IN /\ net' = [net EXCEPT
                             !.accepted = @ + 1,
                             !.sock[fd] = [NoSock EXCEPT !.state = "open",
                                                         !.peer = "reading"]]
                /\ thr' = [thr EXCEPT !.accept = [pc |-> "accepted",
                                                  fd |-> fd]]
       \/ /\ net.listen = "closed"
          /\ thr' = [thr EXCEPT !.accept.pc = "done"]
          /\ UNCHANGED net
    /\ UNCHANGED <<ring_side, outside, srv>>

\* first slot of srv->clients[] that is not active
FreeSlot == CHOOSE i \in ServerSlots :
               /\ ~srv.clients[i].active
               /\ \A j \in ServerSlots : j < i => srv.clients[j].active

\* btelem_cid = btelem_client_open(srv->ctx, NULL, 0); a negative id closes
\* the connection; otherwise, with the lock held, the first free slot takes
\* fd and id, becomes active, and its client thread is created.  There are
\* BTELEM_SERVE_MAX_CLIENTS slots and no more than MaxConns connections, so
\* a free slot exists and the call finds a free consumer slot.
at_open ==
    /\ thr.accept.pc = "accepted"
    /\ \E i \in ServerSlots : ~srv.clients[i].active
    /\ btelem_client_open({})
    /\ LET btelem_cid == last'.ret
           fd == thr.accept.fd
           slot == FreeSlot
       IN IF btelem_cid < 0
          THEN /\ net' = [net EXCEPT !.sock[fd].state = "closed"]
               /\ thr' = [thr EXCEPT !.accept = [pc |-> "loop", fd |-> -1]]
               /\ UNCHANGED srv
          ELSE /\ srv' = [srv EXCEPT !.clients[slot] =
                            [fd |-> fd, btelem_client_id |-> btelem_cid,
                             active |-> TRUE]]
               /\ thr' = [thr EXCEPT
                            !.accept = [pc |-> "loop", fd |-> -1],
                            !.client[slot] = [NoThread EXCEPT !.pc = "start"]]
               /\ UNCHANGED net

accept_thread == at_loop \/ at_accept \/ at_open

\* int btelem_serve(srv, ctx, ip, port), given an initialised context with
\* its schema registered: socket, bind or listen fails and
\* the call returns -1 with the server struct as it was; or the struct is
\* filled in, the socket listens and the accept thread is created
btelem_serve ==
    /\ thr.main.pc = "app"
    /\ schema_count > 0
    /\ \/ /\ thr' = [thr EXCEPT !.main.ret = -1]
          /\ UNCHANGED <<srv, net>>
       \/ /\ srv' = [running |-> TRUE, listen_fd |-> ListenFd,
                     clients |-> [i \in ServerSlots |->
                                    [srv.clients[i] EXCEPT
                                       !.fd = -1, !.active = FALSE]]]
          /\ net' = [net EXCEPT !.listen = "listening"]
          /\ thr' = [thr EXCEPT !.main = [pc |-> "serving", i |-> 0,
                                          ret |-> 0],
                                !.accept.pc = "loop"]
    /\ UNCHANGED <<ring_side, outside>>

\* btelem_server_stop: server->running = 0
stop_running ==
    /\ "stop" \in scn.api
    /\ thr.main.pc = "serving"
    /\ srv.running
    /\ srv' = [srv EXCEPT !.running = FALSE]
    /\ thr' = [thr EXCEPT !.main.pc = "stop_listen"]
    /\ UNCHANGED <<ring_side, outside, net>>

\* shutdown(server->listen_fd, SHUT_RDWR); close(server->listen_fd)
stop_listen ==
    /\ thr.main.pc = "stop_listen"
    /\ net' = [net EXCEPT !.listen = "closed"]
    /\ thr' = [thr EXCEPT !.main.pc = "join"]
    /\ UNCHANGED <<ring_side, outside, srv>>

\* pthread_join(server->accept_thread, NULL) returns once that thread has
stop_join ==
    /\ thr.main.pc = "join"
    /\ thr.accept.pc = "done"
    /\ thr' = [thr EXCEPT !.main.pc = "shutdown_clients"]
    /\ UNCHANGED <<ring_side, outside, srv, net>>

\* with the lock held, shutdown(fd, SHUT_RDWR) for every slot that is
\* active with fd >= 0; a descriptor its thread has closed is left as it is
stop_shutdown ==
    /\ thr.main.pc = "shutdown_clients"
    /\ net' = [net EXCEPT !.sock =
                 [fd \in ClientFds |->
                    IF /\ \E i \in ServerSlots :
                             /\ srv.clients[i].active
                             /\ srv.clients[i].fd = fd
                       /\ net.sock[fd].state = "open"
                    THEN [net.sock[fd] EXCEPT !.state = "shutdown"]
                    ELSE net.sock[fd]]]
    /\ thr' = [thr EXCEPT !.main.pc = "poll", !.main.i = 0]
    /\ UNCHANGED <<ring_side, outside, srv>>

\* the wait loop: a slot is still active and i < 100: usleep(10000), i++
stop_poll ==
    /\ thr.main.pc = "poll"
    /\ thr.main.i < StopPolls
    /\ \E j \in ServerSlots : srv.clients[j].active
    /\ thr' = [thr EXCEPT !.main.i = @ + 1]
    /\ UNCHANGED <<ring_side, outside, srv, net>>

\* the loop ends, because no slot is active or because i reached 100;
\* pthread_mutex_destroy(&server->clients_mu) and return
stop_return ==
    /\ thr.main.pc = "poll"
    /\ \/ thr.main.i >= StopPolls
       \/ \A j \in ServerSlots : ~srv.clients[j].active
    /\ thr' = [thr EXCEPT !.main.pc = "stopped"]
    /\ UNCHANGED <<ring_side, outside, srv, net>>

btelem_server_stop ==
    \/ stop_running
    \/ stop_listen
    \/ stop_join
    \/ stop_shutdown
    \/ stop_poll
    \/ stop_return

\* the peer of a connection stops reading, or closes its end
PeerStalls(fd) ==
    /\ "stall" \in scn.api
    /\ net.sock[fd].state = "open"
    /\ net.sock[fd].peer = "reading"
    /\ net' = [net EXCEPT !.sock[fd].peer = "stalled"]
    /\ UNCHANGED <<ring_side, outside, srv, thr>>

PeerCloses(fd) ==
    /\ "hangup" \in scn.api
    /\ net.sock[fd].state = "open"
    /\ net.sock[fd].peer \in {"reading", "stalled"}
    /\ net' = [net EXCEPT !.sock[fd].peer = "gone"]
    /\ UNCHANGED <<ring_side, outside, srv, thr>>

\* the application registers its schema before it starts the server
RegisterFirst ==
    /\ thr.main.pc = "app"
    /\ schema_count = 0
    /\ Register

\* the application's producer threads log while the server runs
LogServing(p) ==
    /\ thr.main.pc # "app"
    /\ Log(p)

NextServe ==
    \/ RegisterFirst
    \/ btelem_serve
    \/ \E p \in Producers : LogServing(p)
    \/ accept_thread
    \/ \E s \in ServerSlots : client_thread(s)
    \/ \E fd \in ClientFds : PeerStalls(fd)
    \/ \E fd \in ClientFds : PeerCloses(fd)
    \/ btelem_server_stop

\* a context with a ring of MaxCapacity entries and one producer thread;
\* the server's consumers drain into pkt_buf and are closed by their
\* threads.  conns connections are accepted, logs entries logged, and the
\* peers and the application do what `does` names: "hangup" (a peer closes
\* its end), "stall" (a peer stops reading), "stop" (btelem_server_stop)
Serving(conns, logs, does, descs) ==
    WithDescriptors(
        WithApi(Scenario(FALSE, {1}, {0}, logs, conns, TRUE,
                         {"drain_packed"}, {{}}, {0}, {BTELEM_SERVE_PKT_BUF}),
                {"close"} \cup does, ClientIds),
        descs)

\* one connection receiving up to MaxLogs - 1 entries from a peer that may
\* close; MaxConns connections and one entry; one connection whose peer may
\* stop reading, and the server stopped
InitServe ==
    /\ btelem_init(MaxCapacity)
    /\ prod = [p \in Producers |-> IdleProducer]
    /\ drn = [i \in ClientIds |-> IdleDrain]
    /\ clock = 1
    /\ logged = <<>>
    /\ hist = [i \in ClientIds |-> NoHist]
    /\ last = NoLast
    /\ endianness = 0
    /\ nullread = [fault |-> TRUE, bytes |-> <<>>]
    /\ wire = NoWire
    /\ ServerOff
    /\ \/ scn = Serving(1, MaxLogs - 1, {"hangup"}, {Ptr(OtherEntry)})
       \/ scn = Serving(MaxConns, 1, {}, {Ptr(TestEntry)})
       \/ scn = Serving(1, 1, {"stall", "stop"}, {Ptr(TestEntry)})

SpecServe == InitServe /\ [][NextServe]_vars

(* ------------------------------------------------------------------ *)
(* Properties of the TCP server                                        *)
(* ------------------------------------------------------------------ *)
\* every connection accepted so far
Connections == {fd \in ClientFds : net.sock[fd].state # "none"}

\* a thread is still sending on fd
Sending(fd) ==
    \E s \in ServerSlots :
        /\ srv.clients[s].active
        /\ srv.clients[s].fd = fd
        /\ thr.client[s].pc \notin {"done", "closed", "exit", "none"}

\* the j-th run of bytes on a connection is the length word or the bytes
\* of the f-th packet btelem_drain_packed returned on it
FrameItem(fd, j, first) ==
    LET item == net.sock[fd].out[j]
        f == (j - first) \div 2 + 1
        returned == net.sock[fd].returned
    IN /\ f <= Len(returned)
       /\ IF (j - first) % 2 = 0
          THEN /\ item.what = "u32"
               /\ item.size = 4
               /\ item.data = returned[f].n
          ELSE /\ item.what = "packet"
               /\ item.size = returned[f].n
               /\ item.data = returned[f].packet

\* C29: what the server has written to an accepted connection is, or is
\* the beginning of: the 4-byte schema length, the schema chunks in the
\* order of btelem_schema_stream whose sizes add up to that length, then
\* for every positive return n of btelem_drain_packed on the connection,
\* in order, the 4-byte length n and the n bytes of the packet; only the
\* last run of bytes may be cut short, and only by a send that failed,
\* after which nothing more is sent.
C29_WireProtocol ==
    \A fd \in Connections :
        LET out == net.sock[fd].out
            chunks == StreamChunks
        IN /\ \A j \in 1..(Len(out) - 1) : out[j].sent = out[j].size
           /\ (out # <<>> /\ out[Len(out)].sent < out[Len(out)].size)
                 => ~Sending(fd)
           /\ out # <<>> =>
                 /\ out[1].what = "u32"
                 /\ out[1].size = 4
                 /\ out[1].data = Total(chunks)
           /\ \A j \in 2..Min(Len(out), Len(chunks) + 1) :
                 /\ out[j].what = "schema"
                 /\ out[j].size = chunks[j - 1].size
                 /\ out[j].data = chunks[j - 1].bytes
           /\ \A j \in (Len(chunks) + 2)..Len(out) :
                 FrameItem(fd, j, Len(chunks) + 2)

\* C29 witness: a connection has received the schema and two whole frames.
C29_Witness ==
    \E fd \in Connections :
        LET out == net.sock[fd].out
        IN /\ Len(out) = Len(StreamChunks) + 5
           /\ \A j \in 1..Len(out) : out[j].sent = out[j].size
           /\ out[Len(out)].what = "packet"

\* btelem_server_stop has returned
Stopped == thr.main.pc = "stopped"

\* C30: when btelem_server_stop has returned, the accept thread and every
\* client thread have returned, no slot is active, and the listening socket
\* and every accepted connection are closed.
C30_StopJoinsAll ==
    Stopped =>
        /\ thr.accept.pc = "done"
        /\ \A s \in ServerSlots :
              /\ thr.client[s].pc = "none"
              /\ ~srv.clients[s].active
        /\ net.listen = "closed"
        /\ \A fd \in Connections : net.sock[fd].state = "closed"

\* the step in which the drain of client i loads seq for the second time
SecondLoad(i) == drn[i].pc = "check_seq" /\ drn'[i].pc # "check_seq"

FirstLoad(i) == drn[i].pc = "load_seq" /\ drn'[i] # drn[i]

\* the slot at client i's cursor does not hold the entry claimed at cursor
Unpublished(i) == entries[CursorSlot(i)].seq # clients[i].cursor + 1

\* a drain that finds the slot at its cursor unpublished returns what it
\* has emitted so far and leaves cursor and dropped alone
StopsAtUnpublished ==
    \A i \in ClientIds :
        (FirstLoad(i) /\ Unpublished(i)) =>
            /\ drn'[i].pc = "idle"
            /\ clients'[i].cursor = clients[i].cursor
            /\ clients'[i].dropped = clients[i].dropped
            /\ hist'[i].emitted = hist[i].emitted
            /\ drn[i].kind = "drain" =>
                   hist'[i].lastcall.ret = drn[i].emitted
            /\ drn[i].kind = "drain_packed" =>
                   IF drn[i].entry_count = 0
                   THEN hist'[i].lastcall.ret = 0
                   ELSE hist'[i].lastcall.packet.table = drn[i].table

\* every entry logged since client i was opened was handed to it or counted
\* in its dropped
AllDelivered(i) ==
    \A c \in hist[i].opened_at..(head - 1) :
        c \in EmittedSlots(i) \/ c \in hist[i].dropped_claims

\* C32: a drain that finds the slot at its cursor claimed but not published
\* stops there, returns what it emitted so far and changes neither cursor nor
\* dropped; once every producer has published, a later btelem_drain of an
\* accept-all consumer leaves no entry that was neither emitted nor counted
\* in dropped.
C32_StopsAtUnpublished ==
    /\ [](\A i \in ActiveClients :
            ( /\ AcceptsAll(i)
              /\ hist[i].kinds = {"drain"}
              /\ DrainedAfterStop(i, "drain") ) => AllDelivered(i))
    /\ [][StopsAtUnpublished]_vars

\* the same with one producer thread
PublishedIsDeliveredWithOneProducer ==
    /\ [](\A i \in ActiveClients :
            ( /\ SingleProducer
              /\ AcceptsAll(i)
              /\ hist[i].kinds = {"drain"}
              /\ DrainedAfterStop(i, "drain") ) => AllDelivered(i))
    /\ [][StopsAtUnpublished]_vars

\* the number of BTELEM_LOG calls that threads 1..p have begun
RECURSIVE LogCalls(_)
LogCalls(p) == IF p = 0 THEN 0 ELSE prod[p].n + LogCalls(p - 1)

\* a step in which a thread enters BTELEM_LOG
Claims == \E p \in Producers : prod[p].pc = "idle" /\ prod'[p].pc # "idle"

\* C33: head is the number of log calls that have claimed a slot and grows
\* by exactly 1 with each; the seq of slot i is 0 or a value s <= head with
\* (s - 1) mod capacity = i; a step of anything but BTELEM_LOG writes neither
\* head nor a slot.
C33_HeadAndSeq ==
    /\ [](/\ head = LogCalls(NumProducers)
          /\ \A i \in 0..(capacity - 1) :
                \/ entries[i].seq = 0
                \/ /\ entries[i].seq <= head
                   /\ (entries[i].seq - 1) % capacity = i)
    /\ [][/\ head' = IF Claims THEN head + 1 ELSE head
          /\ prod' = prod => entries' = entries]_vars

\* C33 witness: a ring of two slots has wrapped; slot 0 holds the third
\* claim, slot 1 the second, and a consumer has drained and counted a drop.
C33_Witness ==
    /\ capacity = 2
    /\ head = 3
    /\ entries[0].seq = 3
    /\ entries[1].seq = 2
    /\ \E i \in ActiveClients :
          /\ EmittedCount(i) > 0
          /\ clients[i].dropped > 0
          /\ drn[i].pc = "idle"

\* how the cursor of client i may move in one step: by 1 at the end of an
\* iteration of a drain, or forward to oldest when a drain begins
CursorMove(i) ==
    \/ /\ clients'[i].cursor = clients[i].cursor + 1
       /\ drn[i].pc = "check_seq"
    \/ /\ clients'[i].cursor = head - capacity
       /\ clients'[i].cursor > clients[i].cursor
       /\ drn[i].pc = "idle"
       /\ hist'[i].kinds # {}

\* C34: the cursor of an active consumer never exceeds head and never
\* decreases; it moves only by the jump to oldest = head - capacity when a
\* drain begins, or by 1 per slot a drain walks.
C34_CursorBounded ==
    /\ [](\A i \in ActiveClients : clients[i].cursor <= head)
    /\ [][\A i \in ClientIds :
            ( /\ clients[i].active
              /\ clients'[i].active
              /\ clients'[i].cursor # clients[i].cursor ) => CursorMove(i)]_vars

\* C34 witness: on a ring of one slot a consumer's cursor was moved from 0
\* to 2 by the jump and from 2 to 3 by a walked slot, and equals head.
C34_Witness ==
    \E i \in ActiveClients :
        /\ capacity = 1
        /\ head = 3
        /\ clients[i].cursor = 3
        /\ hist[i].dropped_claims = {0, 1}
        /\ EmittedSlots(i) = {2}

\* C35: for every consumer, at every moment, the entries emitted to it plus
\* its dropped counter do not exceed the slots claimed since it was opened.
C35_NeverOvercounts ==
    \A i \in ActiveClients :
        EmittedCount(i) + clients[i].dropped <= head - hist[i].opened_at

\* C35 witness: two producer threads have logged; a consumer was handed one
\* of the entries, counted the other as dropped, and so accounts for all.
C35_Witness ==
    \E i \in ActiveClients :
        /\ ~SingleProducer
        /\ EmittedCount(i) > 0
        /\ clients[i].dropped > 0
        /\ EmittedCount(i) + clients[i].dropped = head - hist[i].opened_at

\* the step in which the callback of client i's drain returns non-zero
CallbackStopped(i) == hist'[i].stopped_at # hist[i].stopped_at

\* the entries handed to client i's callback since its current call began
EmittedThisCall(i) ==
    {k \in 1..Len(hist[i].emitted) : hist[i].emitted[k].slot >= drn[i].cursor0}

TimedOut(s) == thr'.client[s].timeouts > thr.client[s].timeouts

\* C37: when a write to a client socket times out because the receiver
\* stalled, the client thread leaves the send and the drain loop and goes on
\* to close the socket and release its consumer slot.
C37_SlowClientDisconnected ==
    [][\A s \in ServerSlots : TimedOut(s) => thr'.client[s].pc = "done"]_vars

\* a client thread has seen MaxTimeouts writes of one send_all call time
\* out and is still inside that call, its socket open and its consumer slot
\* taken
StillSending ==
    \E s \in ServerSlots :
        /\ thr.client[s].timeouts = MaxTimeouts
        /\ SendTimeoutSet(s)
        /\ srv.clients[s].active
        /\ net.sock[srv.clients[s].fd].state = "open"
        /\ clients[srv.clients[s].btelem_client_id].active

\* while the receiver stalls and the socket is open, a client thread inside
\* send_all has no step but another write() that times out
StuckWhileStalled ==
    \A s \in ServerSlots :
        (WriteTimesOut(s) /\ thr.client[s].timeouts = MaxTimeouts) =>
            ~ENABLED client_thread(s)

(* ------------------------------------------------------------------ *)
(* BTELEM_LOG under the orderings of btelem_platform.h                 *)
(*                                                                     *)
(* The stores of a producer thread become visible to other threads     *)
(* one by one, in an order its memory orderings allow: a release       *)
(* store (seq) only after every store the thread issued before it; a   *)
(* plain store (timestamp, id, payload_size, payload) at any time      *)
(* after it was issued, but after earlier stores to the same location. *)
(* Nothing keeps a plain store behind a release store issued before    *)
(* it.  The fetch_add on head acts on memory at once, and a consumer's *)
(* loads are performed in program order: both are stronger than the    *)
(* orderings require, so every outcome of this model is an outcome the *)
(* orderings allow.                                                    *)
(* ------------------------------------------------------------------ *)
\* a store: the slot and field it writes, the value, whether it is a
\* store_rel, and the claim it belongs to
Store(index, field, val, rel, claim) ==
    [index |-> index, field |-> field, val |-> val, rel |-> rel,
     claim |-> claim]

\* the store the producer issues at its position in BTELEM_LOG
StoreAt(p) ==
    LET pc == prod[p].pc
        e  == SlotOf(p)
        c  == prod[p].slot
    IN CASE pc = "invalidate"   -> Store(e, "seq", 0, TRUE, c)
         [] pc = "timestamp"    -> Store(e, "timestamp", clock, FALSE, c)
         [] pc = "id"           -> Store(e, "id", prod[p].tag, FALSE, c)
         [] pc = "payload_size" ->
                Store(e, "payload_size", Len(prod[p].data) % UINT16_MOD,
                      FALSE, c)
         [] pc = "memcpy"       -> Store(e, "payload", prod[p].data, FALSE, c)
         [] pc = "publish"      -> Store(e, "seq", c + 1, TRUE, c)

\* the statement after the one at pc
AfterStore(pc) ==
    CASE pc = "invalidate"   -> "timestamp"
      [] pc = "timestamp"    -> "id"
      [] pc = "id"           -> "payload_size"
      [] pc = "payload_size" -> "memcpy"
      [] pc = "memcpy"       -> "publish"
      [] pc = "publish"      -> "idle"

\* the producer executes its next store: the store is issued
Log_issue(p) ==
    /\ prod[p].pc \notin {"idle"}
    /\ prod' = [prod EXCEPT ![p].sb = Append(@, StoreAt(p)),
                            ![p].pc = AfterStore(prod[p].pc)]
    /\ clock' = IF prod[p].pc = "timestamp" THEN clock + 1 ELSE clock
    /\ UNCHANGED <<capacity, head, entries, clients, drn, scn, outside,
                   logged, hist, last>>

\* stores kept in the order of the program
Visible_InOrder(sb, k) == k = 1

\* the k-th store issued may become visible now
Visible(sb, k) ==
    IF sb[k].rel
    THEN k = 1
    ELSE \A j \in 1..(k - 1) :
            sb[j].index # sb[k].index \/ sb[j].field # sb[k].field

\* the slot after store st reached it
Stored(e, st) ==
    CASE st.field = "seq"          -> [e EXCEPT !.seq = st.val]
      [] st.field = "timestamp"    -> [e EXCEPT !.timestamp = st.val]
      [] st.field = "id"           -> [e EXCEPT !.id = st.val]
      [] st.field = "payload_size" -> [e EXCEPT !.payload_size = st.val]
      [] st.field = "payload"      ->
             [e EXCEPT !.payload =
                [b \in 1..MaxDataLen |->
                   IF b <= Len(st.val) THEN st.val[b] ELSE e.payload[b]]]

\* a sequence without its k-th element
Without(sq, k) == SubSeq(sq, 1, k - 1) \o SubSeq(sq, k + 1, Len(sq))

\* one of producer p's stores becomes visible; a seq = 0 that lands between
\* the two seq loads of a drain at an earlier claim of the slot is recorded
Log_visible(p) ==
    \E k \in 1..Len(prod[p].sb) :
        LET st == prod[p].sb[k] IN
        /\ Visible(prod[p].sb, k)
        /\ entries' = [entries EXCEPT ![st.index] = Stored(@, st)]
        /\ prod' = [prod EXCEPT ![p].sb = Without(@, k)]
        /\ drn' = [i \in ClientIds |->
                     IF /\ st.field = "seq" /\ st.val = 0
                        /\ drn[i].pc \in {"copy_timestamp", "copy_id",
                                          "copy_payload_size", "copy_payload",
                                          "check_seq"}
                        /\ CursorSlot(i) = st.index
                        /\ clients[i].cursor < st.claim
                     THEN [drn[i] EXCEPT !.hit = TRUE]
                     ELSE drn[i]]
        /\ UNCHANGED <<capacity, head, clients, clock, scn, outside, logged,
                       hist, last>>

LogWeak(p) ==
    \/ \E tag \in scn.tags : Log_claim(p, tag) /\ UNCHANGED server_side
    \/ Log_issue(p) /\ UNCHANGED server_side
    \/ Log_visible(p) /\ UNCHANGED server_side

NextWeak ==
    \/ \E p \in Producers : LogWeak(p)
    \/ Open
    \/ \E i \in scn.ids : Drain(i)

\* a ring of one slot, one producer thread logging twice, one accept-all
\* consumer opened before the first log call and draining by callback
InitWeak ==
    /\ btelem_init(1)
    /\ InitRest
    /\ scn = Scenario(TRUE, {1}, {0}, MaxLogs - 1, 1, FALSE, {"drain"}, {{}},
                      {0}, {})

SpecWeak == InitWeak /\ [][NextWeak]_vars

\* C38: with one producer thread and the orderings the code uses, every
\* entry a consumer emits (both of its seq loads around the copy returned
\* cursor + 1) carries the bytes the log call that claimed cursor stored,
\* and none of a later claim of the slot.
C38_CopyIsPublished ==
    SingleProducer =>
        \A i \in ActiveClients : \A k \in 1..Len(hist[i].emitted) :
            LET em == hist[i].emitted[k]
            IN /\ em.entry.id = LoggedAt(em.slot).id
               /\ em.entry.payload_size = LoggedAt(em.slot).payload_size
               /\ \A b \in 1..em.entry.payload_size :
                     em.entry.payload[b] = LoggedAt(em.slot).payload[b]


(* ------------------------------------------------------------------ *)
(* The field table of a descriptor                                     *)
(* ------------------------------------------------------------------ *)
\* the field_count word of the k-th schema record of the blob
WireFieldCount(k) ==
    GetU16(Blob, SCHEMA_HEADER_SIZE + (k - 1) * SCHEMA_WIRE_SIZE + 4)

\* C39: a btelem_register call whose descriptor has a field_count above
\* BTELEM_MAX_FIELDS returns -1 and leaves the registry as it was, and in
\* every blob btelem_schema_serialize writes, the field_count of each
\* schema record is at most the BTELEM_MAX_FIELDS field slots the record
\* has.
C39_FieldTableValidated ==
    /\ [][(/\ RegisterCall
           /\ wire'.reg.entry # NULL
           /\ Deref(wire'.reg.entry).field_count > BTELEM_MAX_FIELDS) =>
              /\ wire'.reg.ret = -1
              /\ UNCHANGED <<schema, schema_count>>]_vars
    /\ []((WroteBlob /\ ~Deref(wire.ser).fault) =>
             \A k \in 1..Cardinality(IdsHeld) :
                 WireFieldCount(k) <= BTELEM_MAX_FIELDS)

\* what holds instead: the record carries the descriptor's field_count as
\* it is, and field slots only for the first BTELEM_MAX_FIELDS fields
FieldCountCopied ==
    (WroteBlob /\ ~Deref(wire.ser).fault) =>
        /\ Deref(wire.ser).ret = BlobSize
        /\ \A k \in 1..Cardinality(IdsHeld) :
              WireFieldCount(k) =
                  Deref(schema[Kth(IdsHeld, k)]).field_count % UINT16_MOD

\* a blob was written while a descriptor with BTELEM_MAX_FIELDS + 1 fields
\* was registered
OversizedRegistered ==
    /\ WroteBlob
    /\ ~Deref(wire.ser).fault
    /\ \E i \in IdsHeld : Deref(schema[i]).field_count > BTELEM_MAX_FIELDS


(* ------------------------------------------------------------------ *)
(* btelem_drain_packed on a ring of 2^16 entries                       *)
(* ------------------------------------------------------------------ *)
\* the smallest entry_count of btelem_init for which available, and with a
\* buffer of that many entry headers max_entries, has 16 zero low bits
WideEntries == UINT16_MOD

\* the ring and the context after btelem_init(n), btelem_client_open with
\* no filter, and n BTELEM_LOG calls of schema id 0 by thread 1, one
\* after the other
Filled(n) ==
    [head    |-> n,
     entries |-> [i \in 0..(n - 1) |->
                    [seq |-> i + 1, timestamp |-> i + 1, id |-> 0,
                     payload_size |-> SizeOfData(0),
                     payload |-> [k \in 1..MaxDataLen |->
                                    IF k <= SizeOfData(0)
                                    THEN DataOf(1, i + 1, 0)[k] ELSE 0]]],
     clients |-> [i \in ClientIds |->
                    IF i = 0 THEN [ZeroClient EXCEPT !.active = TRUE]
                    ELSE ZeroClient],
     prod    |-> [p \in Producers |->
                    IF p = 1 THEN [IdleProducer EXCEPT !.n = n]
                    ELSE IdleProducer],
     drn     |-> [i \in ClientIds |-> [IdleDrain EXCEPT !.quiet = FALSE]],
     clock   |-> n + 1,
     logged  |-> [c \in 1..n |->
                    [by |-> 1, id |-> 0, payload_size |-> SizeOfData(0),
                     payload |-> DataOf(1, c, 0)]],
     hist    |-> [i \in ClientIds |-> NoHist],
     last    |-> [NoLast EXCEPT !.tick = 1, !.op = "open"]]

\* buf_size: room for WideEntries entry headers and 1 or 3 payload bytes
WideBufs == {PACKET_HEADER_SIZE + WideEntries * ENTRY_HEADER_SIZE + 1,
             PACKET_HEADER_SIZE + WideEntries * ENTRY_HEADER_SIZE + 3}

\* a consumer opened on the empty ring of WideEntries entries, the ring
\* then filled once; one more BTELEM_LOG call may follow
InitWide ==
    /\ capacity = WideEntries
    /\ head = Filled(WideEntries).head
    /\ entries = Filled(WideEntries).entries
    /\ clients = Filled(WideEntries).clients
    /\ prod = Filled(WideEntries).prod
    /\ drn = Filled(WideEntries).drn
    /\ clock = Filled(WideEntries).clock
    /\ logged = Filled(WideEntries).logged
    /\ hist = Filled(WideEntries).hist
    /\ last = Filled(WideEntries).last
    /\ schema = NoSchema
    /\ schema_count = 0
    /\ endianness = 0
    /\ nullread = "fault"
    /\ wire = NoWire
    /\ ServerOff
    /\ scn = Scenario(FALSE, {1}, {0}, WideEntries + 1, 1, FALSE,
                      {"drain_packed"}, {{}}, {0}, WideBufs)

\* the consumer makes MaxWideCalls calls of btelem_drain_packed
DrainWide(i) == hist[i].calls < MaxWideCalls /\ DrainPacked(i)

NextWide ==
    \/ \E p \in Producers : Log(p)
    \/ \E i \in scn.ids : DrainWide(i)

SpecWide == InitWide /\ [][NextWide]_vars

\* the state the model's own btelem_init, btelem_client_open and
\* BTELEM_LOG steps lead to when a ring is filled once is Filled(capacity)
FilledOnce ==
    /\ head = capacity
    /\ AllIdle
    /\ NoDrain
    /\ clients[0].active
    /\ ~clients[0].filter_active
    /\ hist[0].opened_at = 0
    /\ hist[0].calls = 0
    /\ \A c \in 1..Len(logged) : logged[c].by = 1 /\ logged[c].id = 0

FilledIsReached ==
    FilledOnce =>
        /\ head = Filled(capacity).head
        /\ entries = Filled(capacity).entries
        /\ clients = Filled(capacity).clients
        /\ prod = Filled(capacity).prod
        /\ drn = Filled(capacity).drn
        /\ clock = Filled(capacity).clock
        /\ logged = Filled(capacity).logged
        /\ hist = Filled(capacity).hist
        /\ last = Filled(capacity).last

\* the second load of seq by client i finds the entry it copied, the
\* filter accepts it, its payload fits in what is left of the payload
\* area, and fewer than max_entries headers are written
FitsAndAccepted(i) ==
    /\ drn[i].pc = "check_seq"
    /\ drn[i].kind = "drain_packed"
    /\ drn'[i].pc # "check_seq"
    /\ entries[CursorSlot(i)].seq = drn[i].seq
    /\ ~FilterRejects(clients[i], drn[i].local.id)
    /\ drn[i].payload_offset + drn[i].local.payload_size
          <= drn[i].payload_capacity
    /\ Len(drn[i].table) < drn[i].max_entries

\* C40: whenever btelem_drain_packed has walked a committed entry that the
\* filter accepts and that fits in the payload area while fewer than
\* max_entries entry headers are written, the entry is put in the packet
\* and the call does not end there; and the entry_count of every packet
\* returned is the number of entry headers in it.
C40_EntryCounter ==
    /\ [][\A i \in ClientIds :
            FitsAndAccepted(i) =>
               /\ Len(hist'[i].emitted) = Len(hist[i].emitted) + 1
               /\ ~(drn'[i].pc = "idle" /\ hist'[i].lastcall.ret = 0)]_vars
    /\ [](\A i \in ClientIds :
            (hist[i].lastcall.kind = "drain_packed"
                /\ hist[i].lastcall.ret > 0) =>
               hist[i].lastcall.packet.entry_count
                   = Len(hist[i].lastcall.packet.table))

\* a call given room for WideEntries headers returned 0 with the cursor
\* moved past a committed entry that no packet holds and dropped unchanged
ConsumedAndReturnedZero ==
    \E i \in ClientIds :
        /\ hist[i].lastcall.kind = "drain_packed"
        /\ hist[i].lastcall.ret = 0
        /\ hist[i].lastcall.buf_size \in WideBufs
        /\ hist[i].calls = 1
        /\ clients[i].cursor = 1
        /\ clients[i].dropped = 0
        /\ hist[i].emitted = <<>>

====
